---------------------------- MODULE Spec2Model ----------------------------
(***************************************************************************)
(* BagBuddy ROI analysis: the two formula workbooks written by             *)
(* src/brand/export_excel_formulas.py and                                  *)
(* src/brand/export_commerce_reward_excel.py, and the Python calculators   *)
(* of src/brand and src/investor.                                          *)
(*                                                                         *)
(* Numbers are exact rationals <<n, d>> in lowest terms with d > 0.  The   *)
(* pair <<0, 0>> stands for "no value": a raised ZeroDivisionError in      *)
(* Python, an error value (#DIV/0!, #VALUE!) in a worksheet.  Every        *)
(* arithmetic operator propagates it, as both languages do.                *)
(***************************************************************************)
EXTENDS Integers, Sequences, FiniteSets, TLC

VARIABLES
  builder,      \* which export function is running
  pc,           \* index of the next statement of the builder
  ws,           \* name of the worksheet being written
  row,          \* the builder's local `row`
  names,        \* the builder's saved locals: *_row and *_cell variables
  cells,        \* the workbook: address -> content
  saved,        \* wb.save(filename) has run
  edits,        \* how many cells the user has overtyped since the save
  edited,       \* the address the user overtyped last
  calculator,      \* the class of the calculator object under study
  campaign_data,   \* self.campaign_data of a flyer or digital ads calculator
  investment_data, \* self.investment_data of an investor calculator
  assumptions,     \* self.assumptions of a commerce reward calculator
  campaigns,       \* self.campaigns of a campaign comparison
  given,           \* the inputs as they were handed to the object
  results,         \* what the latest call of each method returned
  first,           \* what the first call of each method returned
  ncalls,          \* calls made since the inputs were given
  called,          \* the latest call: method and arguments
  roi_calculators, \* the campaign data each BrandROICalculator was built with
  dicts,           \* the dictionaries in memory: identity -> contents
  instances,       \* CommerceRewardCalculator objects: which dictionary each holds
  acted,           \* the latest operation on an object and the object it was made on
  memory,          \* the dictionaries of an exporter's caller: identity -> contents
  files,           \* the output directory: file name -> what was written
  exported,        \* the latest export call: function, arguments, outcome
  nexports         \* export calls made

wbvars == <<builder, pc, ws, row, names, cells, saved, edits, edited>>
calcvars == <<calculator, campaign_data, investment_data, assumptions, campaigns,
              given, results, first, ncalls, called, roi_calculators>>
instvars == <<dicts, instances, acted>>
expvars == <<memory, files, exported, nexports>>
vars == <<wbvars, calcvars, instvars, expvars>>

\* no second calculator object exists
NoInstances == dicts = <<>> /\ instances = <<>> /\ acted = <<>>

\* no exporter has been called
NoExport == memory = <<>> /\ files = <<>> /\ exported = <<>> /\ nexports = 0

---------------------------------------------------------------------------
(* Rational arithmetic *)

Abs(x) == IF x < 0 THEN -x ELSE x

RECURSIVE Gcd(_, _)
Gcd(a, b) == IF b = 0 THEN a ELSE Gcd(b, a % b)

Err == <<0, 0>>
IsErr(q) == q[2] = 0

Rat(n, d) ==
  IF d = 0 THEN Err
  ELSE LET g == Gcd(Abs(n), Abs(d))
           s == IF d < 0 THEN -1 ELSE 1
       IN <<s * (n \div g), s * (d \div g)>>

Zero == Rat(0, 1)
IsZero(q) == q = Zero

\* sums and products cancel common factors before multiplying
RAdd(p, q) ==
  IF IsErr(p) \/ IsErr(q) THEN Err
  ELSE LET g == Gcd(p[2], q[2])
       IN Rat(p[1] * (q[2] \div g) + q[1] * (p[2] \div g), (p[2] \div g) * q[2])
RNeg(p) == IF IsErr(p) THEN Err ELSE <<-p[1], p[2]>>
RSub(p, q) == RAdd(p, RNeg(q))
RMul(p, q) ==
  IF IsErr(p) \/ IsErr(q) THEN Err
  ELSE LET g == Gcd(Abs(p[1]), q[2])
           h == Gcd(Abs(q[1]), p[2])
       IN Rat((p[1] \div g) * (q[1] \div h), (p[2] \div h) * (q[2] \div g))
\* x / 0 is the error value in both languages
RDiv(p, q) ==
  IF IsErr(p) \/ IsErr(q) \/ q[1] = 0 THEN Err
  ELSE RMul(p, IF q[1] < 0 THEN <<-q[2], -q[1]>> ELSE <<q[2], q[1]>>)
RLess(p, q) == p[1] * q[2] < q[1] * p[2]

\* floor of n/d for d > 0 (\div rounds toward minus infinity)
Floor(q) == q[1] \div q[2]
\* the integer nearest to zero-ward of n/d
Trunc(q) == IF q[1] >= 0 THEN q[1] \div q[2] ELSE -((-q[1]) \div q[2])

---------------------------------------------------------------------------
(* Worksheet contents and formula expressions *)

\* what a builder assigns to ws[...]
Label == [k |-> "label"]
Literal(n, d) == [k |-> "literal", v |-> Rat(n, d), editable |-> FALSE]
\* a literal the builder marks as user input (style_editable, yellow fill)
Editable(n, d) == [k |-> "literal", v |-> Rat(n, d), editable |-> TRUE]
Formula(e) == [k |-> "formula", e |-> e]
\* a number the builder takes from a CommerceRewardCalculator result
Computed == [k |-> "computed"]

\* the pieces of an f-string formula; row and cell variables stay symbolic
\* until the statement runs
Here == ""
Num(n, d) == [op |-> "num", v |-> Rat(n, d)]
CellVar(s, name) == [op |-> "cellvar", s |-> s, n |-> name]
RowVar(s, c, name, off) == [op |-> "rowvar", s |-> s, c |-> c, n |-> name, off |-> off]
Add(l, r) == [op |-> "add", l |-> l, r |-> r]
Sub(l, r) == [op |-> "sub", l |-> l, r |-> r]
Mul(l, r) == [op |-> "mul", l |-> l, r |-> r]
Div(l, r) == [op |-> "div", l |-> l, r |-> r]
Neg(x) == [op |-> "neg", x |-> x]
INT(x) == [op |-> "int", x |-> x]
IfZero(c, t, e) == [op |-> "ifzero", c |-> c, t |-> t, e |-> e]

\* the statements of a builder that touch the workbook or a saved local
Sheet(s) == [i |-> "sheet", s |-> s]
SetRow(n) == [i |-> "setrow", n |-> n]
Put(c, x) == [i |-> "put", c |-> c, x |-> x]
Advance(n) == [i |-> "advance", n |-> n]
SaveRow(name) == [i |-> "saverow", n |-> name]
SaveCell(name, c) == [i |-> "savecell", n |-> name, c |-> c]

\* a for loop whose body writes the same cells n times
RECURSIVE Times(_, _)
Times(n, body) == IF n = 0 THEN <<>> ELSE body \o Times(n - 1, body)

---------------------------------------------------------------------------
(* The formulas of the cost, count, revenue and ratio cells *)

\* a faulty variant: the cost multiplied by the slots per bag instead of the quarters
CampaignCostTimesSlots ==
  Mul(Mul(CellVar(Here, "cost_per_slot"), CellVar(Here, "bags_per_quarter")), CellVar(Here, "slots_per_bag"))

\* export_excel_formulas.py 209-211
CampaignCostFormula ==
  Mul(Mul(CellVar(Here, "cost_per_slot"), CellVar(Here, "bags_per_quarter")), CellVar(Here, "num_quarters"))

\* a faulty variant: every scenario column reading the conservative scan rate
ScansFromConservativeRate(col, rate) ==
  INT(Div(Mul(RowVar(Here, col, "bags_row", 0), CellVar(Here, "scan_rate_cons")), Num(100, 1)))

\* export_excel_formulas.py 245-247
ScansFormula(col, rate) ==
  INT(Div(Mul(RowVar(Here, col, "bags_row", 0), CellVar(Here, rate)), Num(100, 1)))

\* export_excel_formulas.py 281-283
ConversionsFormula(col, rate) ==
  INT(Div(Mul(RowVar(Here, col, "scans_row", 0), CellVar(Here, rate)), Num(100, 1)))

\* a faulty variant: the row arithmetic off by one: the revenue cell reads its own row
RevenueFromOwnRow(col) ==
  Mul(RowVar(Here, col, "conv_row", 1), CellVar(Here, "avg_revenue"))

\* export_excel_formulas.py 293-295
RevenueFormula(col) ==
  Mul(RowVar(Here, col, "conv_row", 0), CellVar(Here, "avg_revenue"))

\* a faulty variant: the profit divided by the revenue instead of the cost
RoiOverRevenue(col) ==
  IfZero(RowVar(Here, col, "cost_row", 0), Num(0, 1), Mul(Div(Sub(RowVar(Here, col, "revenue_row", 0), RowVar(Here, col, "cost_row", 0)), RowVar(Here, col, "revenue_row", 0)), Num(100, 1)))

\* export_excel_formulas.py 316-318
RoiFormula(col) ==
  IfZero(RowVar(Here, col, "cost_row", 0), Num(0, 1), Mul(Div(Sub(RowVar(Here, col, "revenue_row", 0), RowVar(Here, col, "cost_row", 0)), RowVar(Here, col, "cost_row", 0)), Num(100, 1)))

\* export_excel_formulas.py 432
DigitalImpressionsFormula ==
  INT(Mul(Div(RowVar(Here, "B", "digital_budget_row", 0), RowVar(Here, "B", "digital_cpm_row", 0)), Num(1000, 1)))

\* export_commerce_reward_excel.py 429
MarginPctFormula ==
  Div(RowVar(Here, "B", "total_margin_row", 0), RowVar(Here, "B", "total_revenue_row", 0))

\* a faulty variant: the row arithmetic off by one: user_earnings_row+2
UserNetCostRefTwoBelow ==
  RowVar("Calculations", "B", "user_earnings_row", 2)

\* export_commerce_reward_excel.py 661, 1150
UserNetCostRef ==
  RowVar("Calculations", "B", "user_earnings_row", 1)

\* export_commerce_reward_excel.py 870
LtvCacFormula ==
  Div(RowVar(Here, "B", "ltv_row", 0), CellVar(Here, "cac_cell"))

\* export_commerce_reward_excel.py 884
PaybackFormula ==
  Div(CellVar(Here, "cac_cell"), RowVar(Here, "B", "monthly_contrib_row", 0))

\* create_formula_based_excel, ROI Calculator: assumptions and the three scenario columns (export_excel_formulas.py 60-372)
RoiCalculatorSheet ==
  << Sheet("ROI Calculator"),  \* 61
     SetRow(1), Put("A", Label), Advance(1),  \* 63-68
     Put("A", Label), Advance(2),  \* 70-73
     Put("A", Label), Advance(1),  \* 76-80
     Put("A", Label), Advance(1),  \* 86-90
     Put("A", Label), Put("B", Editable(3, 20)), Put("C", Label), SaveCell("cost_per_slot", "B"),  \* 92-96
     Advance(1),  \* 97
     Put("A", Label), Put("B", Editable(5000, 1)), Put("C", Label), SaveCell("bags_per_quarter", "B"),  \* 99-103
     Advance(1),  \* 104
     Put("A", Label), Put("B", Editable(8, 1)), Put("C", Label), SaveCell("slots_per_bag", "B"),  \* 106-110
     Advance(1),  \* 111
     Put("A", Label), Put("B", Editable(5, 1)), Put("C", Label), SaveCell("impressions_per_bag", "B"),  \* 113-117
     Advance(2),  \* 118
     Put("A", Label), Advance(1),  \* 121-125
     Put("A", Label), Put("B", Editable(1, 1)), Put("C", Label), SaveCell("num_quarters", "B"),  \* 127-131
     Advance(1),  \* 132
     Put("A", Label), Put("B", Editable(25, 1)), Put("C", Label), SaveCell("avg_revenue", "B"),  \* 134-138
     Advance(2),  \* 139
     Put("A", Label), Advance(1),  \* 142-146
     Put("A", Label), Put("B", Label), Put("C", Label), Put("D", Label), Put("E", Label), Put("F", Label),  \* 149-154
     Put("G", Label), Advance(1),  \* 155-158
     Put("A", Label), Put("B", Editable(2, 1)), Put("C", Label), Put("D", Editable(5, 2)),  \* 160-164
     Put("E", Label), Put("F", Editable(3, 1)), Put("G", Label), SaveCell("scan_rate_cons", "B"),  \* 166-170
     SaveCell("scan_rate_mod", "D"), SaveCell("scan_rate_opt", "F"), Advance(1),  \* 171-173
     Put("A", Label), Put("B", Editable(20, 1)), Put("C", Label), Put("D", Editable(25, 1)),  \* 175-179
     Put("E", Label), Put("F", Editable(30, 1)), Put("G", Label), SaveCell("conv_rate_cons", "B"),  \* 181-185
     SaveCell("conv_rate_mod", "D"), SaveCell("conv_rate_opt", "F"), Advance(3),  \* 186-188
     Put("A", Label), Advance(1),  \* 191-195
     Put("A", Label), Put("B", Label), Put("C", Label), Put("D", Label), Put("E", Label), Advance(1),  \* 198-205
     Put("A", Label), Put("B", Formula(CampaignCostFormula)),  \* 208-209
     Put("C", Formula(CampaignCostFormula)),  \* 210
     Put("D", Formula(CampaignCostFormula)),  \* 211
     Put("E", Label), SaveRow("cost_row"), Advance(1),  \* 212-217
     Put("A", Label),  \* 220
     Put("B", Formula(Mul(CellVar(Here, "bags_per_quarter"), CellVar(Here, "num_quarters")))),  \* 221
     Put("C", Formula(Mul(CellVar(Here, "bags_per_quarter"), CellVar(Here, "num_quarters")))),  \* 222
     Put("D", Formula(Mul(CellVar(Here, "bags_per_quarter"), CellVar(Here, "num_quarters")))),  \* 223
     Put("E", Label), SaveRow("bags_row"), Advance(1),  \* 224-229
     Put("A", Label),  \* 232
     Put("B", Formula(Mul(RowVar(Here, "B", "bags_row", 0), CellVar(Here, "impressions_per_bag")))),  \* 233
     Put("C", Formula(Mul(RowVar(Here, "C", "bags_row", 0), CellVar(Here, "impressions_per_bag")))),  \* 234
     Put("D", Formula(Mul(RowVar(Here, "D", "bags_row", 0), CellVar(Here, "impressions_per_bag")))),  \* 235
     Put("E", Label), SaveRow("phys_imp_row"), Advance(1),  \* 236-241
     Put("A", Label), Put("B", Formula(ScansFormula("B", "scan_rate_cons"))),  \* 244-245
     Put("C", Formula(ScansFormula("C", "scan_rate_mod"))),  \* 246
     Put("D", Formula(ScansFormula("D", "scan_rate_opt"))),  \* 247
     Put("E", Label), SaveRow("scans_row"), Advance(1),  \* 248-253
     Put("A", Label), Put("B", Formula(RowVar(Here, "B", "scans_row", 0))),  \* 256-257
     Put("C", Formula(RowVar(Here, "C", "scans_row", 0))),  \* 258
     Put("D", Formula(RowVar(Here, "D", "scans_row", 0))),  \* 259
     Put("E", Label), SaveRow("dig_imp_row"), Advance(1),  \* 260-265
     Put("A", Label),  \* 268
     Put("B", Formula(Add(RowVar(Here, "B", "phys_imp_row", 0), RowVar(Here, "B", "dig_imp_row", 0)))),  \* 269
     Put("C", Formula(Add(RowVar(Here, "C", "phys_imp_row", 0), RowVar(Here, "C", "dig_imp_row", 0)))),  \* 270
     Put("D", Formula(Add(RowVar(Here, "D", "phys_imp_row", 0), RowVar(Here, "D", "dig_imp_row", 0)))),  \* 271
     Put("E", Label), SaveRow("total_imp_row"), Advance(1),  \* 272-277
     Put("A", Label), Put("B", Formula(ConversionsFormula("B", "conv_rate_cons"))),  \* 280-281
     Put("C", Formula(ConversionsFormula("C", "conv_rate_mod"))),  \* 282
     Put("D", Formula(ConversionsFormula("D", "conv_rate_opt"))),  \* 283
     Put("E", Label), SaveRow("conv_row"), Advance(1),  \* 284-289
     Put("A", Label), Put("B", Formula(RevenueFormula("B"))),  \* 292-293
     Put("C", Formula(RevenueFormula("C"))),  \* 294
     Put("D", Formula(RevenueFormula("D"))),  \* 295
     Put("E", Label), SaveRow("revenue_row"), Advance(1),  \* 296-301
     Put("A", Label),  \* 304
     Put("B", Formula(Sub(RowVar(Here, "B", "revenue_row", 0), RowVar(Here, "B", "cost_row", 0)))),  \* 305
     Put("C", Formula(Sub(RowVar(Here, "C", "revenue_row", 0), RowVar(Here, "C", "cost_row", 0)))),  \* 306
     Put("D", Formula(Sub(RowVar(Here, "D", "revenue_row", 0), RowVar(Here, "D", "cost_row", 0)))),  \* 307
     Put("E", Label), Advance(1),  \* 308-312
     Put("A", Label), Put("B", Formula(RoiFormula("B"))),  \* 315-316
     Put("C", Formula(RoiFormula("C"))),  \* 317
     Put("D", Formula(RoiFormula("D"))),  \* 318
     Put("E", Label), Advance(1),  \* 319-326
     Put("A", Label),  \* 329
     Put("B", Formula(IfZero(RowVar(Here, "B", "total_imp_row", 0), Num(0, 1), Div(RowVar(Here, "B", "cost_row", 0), RowVar(Here, "B", "total_imp_row", 0))))),  \* 330
     Put("C", Formula(IfZero(RowVar(Here, "C", "total_imp_row", 0), Num(0, 1), Div(RowVar(Here, "C", "cost_row", 0), RowVar(Here, "C", "total_imp_row", 0))))),  \* 331
     Put("D", Formula(IfZero(RowVar(Here, "D", "total_imp_row", 0), Num(0, 1), Div(RowVar(Here, "D", "cost_row", 0), RowVar(Here, "D", "total_imp_row", 0))))),  \* 332
     Put("E", Label), Advance(1),  \* 333-337
     Put("A", Label),  \* 340
     Put("B", Formula(IfZero(RowVar(Here, "B", "scans_row", 0), Num(0, 1), Div(RowVar(Here, "B", "cost_row", 0), RowVar(Here, "B", "scans_row", 0))))),  \* 341
     Put("C", Formula(IfZero(RowVar(Here, "C", "scans_row", 0), Num(0, 1), Div(RowVar(Here, "C", "cost_row", 0), RowVar(Here, "C", "scans_row", 0))))),  \* 342
     Put("D", Formula(IfZero(RowVar(Here, "D", "scans_row", 0), Num(0, 1), Div(RowVar(Here, "D", "cost_row", 0), RowVar(Here, "D", "scans_row", 0))))),  \* 343
     Put("E", Label), Advance(1),  \* 344-348
     Put("A", Label),  \* 351
     Put("B", Formula(IfZero(RowVar(Here, "B", "conv_row", 0), Num(0, 1), Div(RowVar(Here, "B", "cost_row", 0), RowVar(Here, "B", "conv_row", 0))))),  \* 352
     Put("C", Formula(IfZero(RowVar(Here, "C", "conv_row", 0), Num(0, 1), Div(RowVar(Here, "C", "cost_row", 0), RowVar(Here, "C", "conv_row", 0))))),  \* 353
     Put("D", Formula(IfZero(RowVar(Here, "D", "conv_row", 0), Num(0, 1), Div(RowVar(Here, "D", "cost_row", 0), RowVar(Here, "D", "conv_row", 0))))),  \* 354
     Put("E", Label), Advance(1),  \* 355-359
     Advance(1),  \* 362
     Put("A", Label), Put("B", Formula(Div(RowVar(Here, "B", "revenue_row", 0), Num(1000, 1)))),  \* 363-364
     Put("C", Formula(Div(RowVar(Here, "C", "revenue_row", 0), Num(1000, 1)))),  \* 365
     Put("D", Formula(Div(RowVar(Here, "D", "revenue_row", 0), Num(1000, 1)))),  \* 366
     Put("E", Label) >>  \* 367

\* create_formula_based_excel, Compare Channels: digital ads and flyers (export_excel_formulas.py 375-555)
CompareChannelsSheet ==
  << Sheet("Compare Channels"),  \* 375
     SetRow(1), Put("A", Label), Advance(2),  \* 377-382
     Put("A", Label), Advance(1),  \* 384-388
     Put("A", Label), Put("B", Editable(1000, 1)), Put("C", Label), SaveRow("digital_budget_row"),  \* 390-394
     Advance(1),  \* 395
     Put("A", Label), Put("B", Editable(10, 1)), Put("C", Label), SaveRow("digital_cpm_row"), Advance(1),  \* 397-402
     Put("A", Label), Put("B", Editable(1, 1)), Put("C", Label), SaveRow("digital_ctr_row"), Advance(1),  \* 404-409
     Put("A", Label), Put("B", Editable(5, 2)), Put("C", Label), SaveRow("digital_conv_row"), Advance(1),  \* 411-416
     Put("A", Label), Put("B", Editable(25, 1)), Put("C", Label), SaveRow("digital_avg_rev_row"),  \* 418-422
     Advance(2),  \* 423
     Put("A", Label), Advance(1),  \* 425-429
     Put("A", Label), Put("B", Formula(DigitalImpressionsFormula)),  \* 431-432
     SaveRow("digital_imp_row"), Advance(1),  \* 434-435
     Put("A", Label),  \* 437
     Put("B", Formula(INT(Div(Mul(RowVar(Here, "B", "digital_imp_row", 0), RowVar(Here, "B", "digital_ctr_row", 0)), Num(100, 1))))),  \* 438
     SaveRow("digital_clicks_row"), Advance(1),  \* 440-441
     Put("A", Label),  \* 443
     Put("B", Formula(INT(Div(Mul(RowVar(Here, "B", "digital_clicks_row", 0), RowVar(Here, "B", "digital_conv_row", 0)), Num(100, 1))))),  \* 444
     SaveRow("digital_conv_result_row"), Advance(1),  \* 446-447
     Put("A", Label),  \* 449
     Put("B", Formula(Mul(RowVar(Here, "B", "digital_conv_result_row", 0), RowVar(Here, "B", "digital_avg_rev_row", 0)))),  \* 450
     SaveRow("digital_revenue_row"), Advance(1),  \* 452-453
     Put("A", Label),  \* 455
     Put("B", Formula(IfZero(RowVar(Here, "B", "digital_budget_row", 0), Num(0, 1), Mul(Div(Sub(RowVar(Here, "B", "digital_revenue_row", 0), RowVar(Here, "B", "digital_budget_row", 0)), RowVar(Here, "B", "digital_budget_row", 0)), Num(100, 1))))),  \* 456
     Advance(1),  \* 459
     Put("A", Label),  \* 461
     Put("B", Formula(IfZero(RowVar(Here, "B", "digital_conv_result_row", 0), Num(0, 1), Div(RowVar(Here, "B", "digital_budget_row", 0), RowVar(Here, "B", "digital_conv_result_row", 0))))),  \* 462
     Advance(3),  \* 464
     Put("A", Label), Advance(1),  \* 467-471
     Put("A", Label), Put("B", Editable(5000, 1)), Put("C", Label), SaveRow("flyer_num_row"), Advance(1),  \* 473-478
     Put("A", Label), Put("B", Editable(3, 25)), Put("C", Label), SaveRow("flyer_print_row"), Advance(1),  \* 480-485
     Put("A", Label), Put("B", Editable(1, 10)), Put("C", Label), SaveRow("flyer_dist_row"), Advance(1),  \* 487-492
     Put("A", Label), Put("B", Editable(4, 5)), Put("C", Label), SaveRow("flyer_resp_row"), Advance(1),  \* 494-499
     Put("A", Label), Put("B", Editable(10, 1)), Put("C", Label), SaveRow("flyer_conv_rate_row"),  \* 501-505
     Advance(1),  \* 506
     Put("A", Label), Put("B", Editable(25, 1)), Put("C", Label), SaveRow("flyer_avg_rev_row"),  \* 508-512
     Advance(2),  \* 513
     Put("A", Label), Advance(1),  \* 515-519
     Put("A", Label),  \* 521
     Put("B", Formula(Mul(RowVar(Here, "B", "flyer_num_row", 0), Add(RowVar(Here, "B", "flyer_print_row", 0), RowVar(Here, "B", "flyer_dist_row", 0))))),  \* 522
     SaveRow("flyer_cost_row"), Advance(1),  \* 524-525
     Put("A", Label),  \* 527
     Put("B", Formula(INT(Div(Mul(RowVar(Here, "B", "flyer_num_row", 0), RowVar(Here, "B", "flyer_resp_row", 0)), Num(100, 1))))),  \* 528
     SaveRow("flyer_responses_row"), Advance(1),  \* 530-531
     Put("A", Label),  \* 533
     Put("B", Formula(INT(Div(Mul(RowVar(Here, "B", "flyer_responses_row", 0), RowVar(Here, "B", "flyer_conv_rate_row", 0)), Num(100, 1))))),  \* 534
     SaveRow("flyer_conv_result_row"), Advance(1),  \* 536-537
     Put("A", Label),  \* 539
     Put("B", Formula(Mul(RowVar(Here, "B", "flyer_conv_result_row", 0), RowVar(Here, "B", "flyer_avg_rev_row", 0)))),  \* 540
     SaveRow("flyer_revenue_row"), Advance(1),  \* 542-543
     Put("A", Label),  \* 545
     Put("B", Formula(IfZero(RowVar(Here, "B", "flyer_cost_row", 0), Num(0, 1), Mul(Div(Sub(RowVar(Here, "B", "flyer_revenue_row", 0), RowVar(Here, "B", "flyer_cost_row", 0)), RowVar(Here, "B", "flyer_cost_row", 0)), Num(100, 1))))),  \* 546
     Advance(1),  \* 549
     Put("A", Label),  \* 551
     Put("B", Formula(IfZero(RowVar(Here, "B", "flyer_conv_result_row", 0), Num(0, 1), Div(RowVar(Here, "B", "flyer_cost_row", 0), RowVar(Here, "B", "flyer_conv_result_row", 0))))) >>  \* 552

\* create_formula_based_excel, Research References: text only (export_excel_formulas.py 558-718)
ResearchReferencesSheet ==
  << Sheet("Research References"),  \* 558
     SetRow(1), Put("A", Label), Advance(1),  \* 560-565
     Put("A", Label), Advance(2),  \* 567-570
     Put("A", Label), Put("B", Label), Put("C", Label), Put("D", Label), Advance(1),  \* 573-577
     Put("A", Label), Advance(1),  \* 580-584
     Put("A", Label), Put("B", Label), Put("C", Label), Put("D", Label), Advance(1),  \* 586
     Put("A", Label), Put("B", Label), Put("C", Label), Put("D", Label), Advance(1),  \* 586
     Put("A", Label), Put("B", Label), Put("C", Label), Put("D", Label), Advance(1),  \* 586
     Advance(1),  \* 586
     Put("A", Label), Advance(1),  \* 586
     Put("A", Label), Put("B", Label), Put("C", Label), Put("D", Label), Advance(1),  \* 586
     Put("A", Label), Put("B", Label), Put("C", Label), Put("D", Label), Advance(1),  \* 586
     Put("A", Label), Put("B", Label), Put("C", Label), Put("D", Label), Advance(1),  \* 586
     Put("A", Label), Put("B", Label), Put("C", Label), Put("D", Label), Advance(1),  \* 586
     Advance(1),  \* 586
     Put("A", Label), Advance(1),  \* 586
     Put("A", Label), Put("B", Label), Put("C", Label), Put("D", Label), Advance(1),  \* 586
     Put("A", Label), Put("B", Label), Put("C", Label), Put("D", Label), Advance(1),  \* 586
     Put("A", Label), Put("B", Label), Put("C", Label), Put("D", Label), Advance(1),  \* 586
     Put("A", Label), Put("B", Label), Put("C", Label), Put("D", Label), Advance(1),  \* 586
     Put("A", Label), Put("B", Label), Put("C", Label), Put("D", Label), Advance(1),  \* 586
     Advance(1),  \* 586
     Put("A", Label), Advance(1),  \* 586
     Put("A", Label), Put("B", Label), Put("C", Label), Put("D", Label), Advance(1),  \* 586
     Put("A", Label), Put("B", Label), Put("C", Label), Put("D", Label), Advance(1),  \* 586
     Put("A", Label), Put("B", Label), Put("C", Label), Put("D", Label), Advance(1),  \* 586
     Put("A", Label), Put("B", Label), Put("C", Label), Put("D", Label), Advance(1),  \* 586
     Put("A", Label), Put("B", Label), Put("C", Label), Put("D", Label), Advance(1),  \* 586
     Put("A", Label), Put("B", Label), Put("C", Label), Put("D", Label), Advance(1),  \* 586
     Put("A", Label), Put("B", Label), Put("C", Label), Put("D", Label), Advance(1),  \* 586
     Advance(1),  \* 586
     Put("A", Label), Advance(1),  \* 586
     Put("A", Label), Put("B", Label), Put("C", Label), Put("D", Label), Advance(1),  \* 586
     Put("A", Label), Put("B", Label), Put("C", Label), Put("D", Label), Advance(1),  \* 586
     Put("A", Label), Put("B", Label), Put("C", Label), Put("D", Label), Advance(1),  \* 586
     Put("A", Label), Put("B", Label), Put("C", Label), Put("D", Label), Advance(1),  \* 586
     Put("A", Label), Put("B", Label), Put("C", Label), Put("D", Label), Advance(1),  \* 586
     Put("A", Label), Put("B", Label), Put("C", Label), Put("D", Label), Advance(1),  \* 586
     Put("A", Label), Put("B", Label), Put("C", Label), Put("D", Label), Advance(1),  \* 586
     Advance(1),  \* 586
     Put("A", Label), Advance(1),  \* 586
     Put("A", Label), Put("B", Label), Put("C", Label), Put("D", Label), Advance(1),  \* 586
     Put("A", Label), Put("B", Label), Put("C", Label), Put("D", Label), Advance(1),  \* 586
     Put("A", Label), Put("B", Label), Put("C", Label), Put("D", Label), Advance(1),  \* 586
     Put("A", Label), Put("B", Label), Put("C", Label), Put("D", Label), Advance(1),  \* 586
     Advance(1),  \* 586
     Put("A", Label), Advance(1),  \* 586
     Put("A", Label), Put("B", Label), Put("C", Label), Put("D", Label), Advance(1),  \* 586
     Put("A", Label), Put("B", Label), Put("C", Label), Put("D", Label), Advance(1),  \* 586
     Put("A", Label), Put("B", Label), Put("C", Label), Put("D", Label), Advance(1),  \* 586
     Put("A", Label), Put("B", Label), Put("C", Label), Put("D", Label), Advance(1),  \* 586
     Put("A", Label), Put("B", Label), Put("C", Label), Put("D", Label), Advance(1),  \* 586
     Put("A", Label), Put("B", Label), Put("C", Label), Put("D", Label), Advance(1),  \* 586
     Advance(1),  \* 655
     Put("A", Label), Advance(1),  \* 658-662
     Put("A", Label), Put("B", Label), Advance(1),  \* 673-677
     Put("A", Label), Put("B", Label), Advance(1),  \* 679
     Put("A", Label), Put("B", Label), Advance(1),  \* 679
     Put("A", Label), Put("B", Label), Advance(1),  \* 679
     Put("A", Label), Put("B", Label), Advance(1),  \* 679
     Put("A", Label), Put("B", Label), Advance(1),  \* 679
     Put("A", Label), Put("B", Label), Advance(1),  \* 679
     Advance(1),  \* 689
     Put("A", Label), Advance(1),  \* 692-696
     Put("A", Label), Put("B", Label), Advance(1),  \* 708
     Put("A", Label), Put("B", Label), Advance(1),  \* 708
     Put("A", Label), Put("B", Label), Advance(1),  \* 708
     Put("A", Label), Put("B", Label), Advance(1),  \* 708
     Put("A", Label), Put("B", Label), Advance(1),  \* 708
     Put("A", Label), Put("B", Label), Advance(1),  \* 708
     Put("A", Label), Put("B", Label), Advance(1) >>  \* 708

\* create_commerce_reward_excel, Assumptions (export_commerce_reward_excel.py 52-342)
AssumptionsSheet ==
  << SetRow(1), Sheet("Assumptions"),  \* 52-53
     Put("A", Label), Advance(2),  \* 55-58
     Put("A", Label), Advance(1),  \* 61-64
     Put("A", Label), Put("B", Editable(2, 5)), Put("C", Label), Put("D", Label),  \* 66-71
     SaveCell("bag_price_cell", "B"), Advance(1),  \* 72-73
     Put("A", Label), Put("B", Editable(10000, 1)), Put("C", Label), Put("D", Label),  \* 75-80
     SaveCell("bags_sold_cell", "B"), Advance(1),  \* 81-82
     Put("A", Label), Put("B", Editable(15, 1)), Put("C", Label), Put("D", Label),  \* 84-88
     SaveCell("bag_growth_cell", "B"), Advance(2),  \* 89-90
     Put("A", Label), Advance(1),  \* 93-96
     Put("A", Label), Put("B", Editable(10, 1)), Put("C", Label), Put("D", Label),  \* 98-103
     SaveCell("initial_brands_cell", "B"), Advance(1),  \* 104-105
     Put("A", Label), Put("B", Editable(25, 1)), Put("C", Label), Put("D", Label),  \* 107-111
     SaveCell("brand_growth_cell", "B"), Advance(2),  \* 112-113
     Put("A", Label), Advance(1),  \* 116-119
     Put("A", Label), Put("B", Editable(1, 5)), Put("C", Label), Put("D", Label),  \* 121-126
     SaveCell("cpv_cell", "B"), Advance(1),  \* 127-128
     Put("A", Label), Put("B", Editable(3, 50)), Put("C", Label), Put("D", Label),  \* 130-135
     SaveCell("cash_credit_cell", "B"), Advance(1),  \* 136-137
     Put("A", Label), Put("B", Editable(3, 50)), Put("C", Label), Put("D", Label),  \* 139-144
     SaveCell("reward_points_cell", "B"), Advance(1),  \* 145-146
     Put("A", Label), Put("B", Editable(2, 25)), Put("C", Label), Put("D", Label),  \* 148-153
     SaveCell("margin_per_view_cell", "B"), Advance(2),  \* 154-155
     Put("A", Label), Advance(1),  \* 158-161
     Put("A", Label), Put("B", Editable(60, 1)), Put("C", Label), Put("D", Label),  \* 163-167
     SaveCell("active_user_rate_cell", "B"), Advance(2),  \* 168-169
     Put("A", Label), Advance(1),  \* 172-175
     Put("A", Label), Put("B", Editable(3, 1)), Put("C", Label), Put("D", Label),  \* 177-182
     SaveCell("ads_to_recover_cell", "B"), Advance(1),  \* 183-184
     Put("A", Label), Put("B", Editable(12, 1)), Put("C", Label), Put("D", Label),  \* 186-191
     SaveCell("monthly_views_cell", "B"), Advance(2),  \* 192-193
     Put("A", Label), Advance(1),  \* 196-199
     Put("A", Label), Put("B", Editable(1, 1)), Put("D", Label), SaveCell("bronze_limit_cell", "B"),  \* 201-205
     Advance(1),  \* 206
     Put("A", Label), Put("B", Editable(3, 1)), Put("D", Label), SaveCell("silver_limit_cell", "B"),  \* 208-212
     Advance(1),  \* 213
     Put("A", Label), Put("B", Editable(7, 1)), Put("D", Label), SaveCell("gold_limit_cell", "B"),  \* 215-219
     Advance(1),  \* 220
     Put("A", Label), Put("B", Editable(1, 1)), Put("D", Label), SaveCell("platinum_cap_cell", "B"),  \* 222-227
     Advance(2),  \* 228
     Put("A", Label), Advance(1),  \* 231-234
     Put("A", Label), Put("B", Editable(60, 1)), Put("C", Label), Put("D", Label),  \* 236-240
     SaveCell("pct_bronze_cell", "B"), Advance(1),  \* 241-242
     Put("A", Label), Put("B", Editable(25, 1)), Put("C", Label), Put("D", Label),  \* 244-248
     SaveCell("pct_silver_cell", "B"), Advance(1),  \* 249-250
     Put("A", Label), Put("B", Editable(12, 1)), Put("C", Label), Put("D", Label),  \* 252-256
     SaveCell("pct_gold_cell", "B"), Advance(1),  \* 257-258
     Put("A", Label), Put("B", Editable(3, 1)), Put("C", Label), Put("D", Label),  \* 260-264
     SaveCell("pct_platinum_cell", "B"), Advance(2),  \* 265-266
     Put("A", Label), Advance(1),  \* 269-272
     Put("A", Label), Put("B", Editable(75, 1)), Put("C", Label), Put("D", Label),  \* 274-278
     SaveCell("redemption_rate_cell", "B"), Advance(1),  \* 279-280
     Put("A", Label), Put("B", Editable(15, 1)), Put("C", Label), Put("D", Label),  \* 282-286
     SaveCell("repeat_visit_cell", "B"), Advance(1),  \* 287-288
     Put("A", Label), Put("B", Editable(8, 1)), Put("C", Label), Put("D", Label),  \* 290-294
     SaveCell("basket_uplift_cell", "B"), Advance(1),  \* 295-296
     Put("A", Label), Put("B", Editable(25, 1)), Put("C", Label), Put("D", Label),  \* 298-303
     SaveCell("avg_basket_cell", "B"), Advance(2),  \* 304-305
     Put("A", Label), Advance(1),  \* 308-311
     Put("A", Label), Put("B", Editable(10, 1)), Put("C", Label), Put("D", Label),  \* 313-318
     SaveCell("meta_cpm_cell", "B"), Advance(1),  \* 319-320
     Put("A", Label), Put("B", Editable(17, 2)), Put("C", Label), Put("D", Label),  \* 322-327
     SaveCell("tiktok_cpm_cell", "B"), Advance(1),  \* 328-329
     Put("A", Label), Put("B", Editable(1, 1)), Put("C", Label), Put("D", Label),  \* 331-335
     SaveCell("ctr_cell", "B") >>  \* 336

\* create_commerce_reward_excel, Calculations (export_commerce_reward_excel.py 345-622)
CalculationsSheet ==
  << Sheet("Calculations"),  \* 345
     SetRow(1), Put("A", Label), Advance(2),  \* 346-351
     Put("A", Label), Advance(1),  \* 354-357
     Put("A", Label), Put("B", Formula(CellVar("Assumptions", "bags_sold_cell"))),  \* 359-360
     Put("C", Label), Advance(1),  \* 362-363
     Put("A", Label),  \* 365
     Put("B", Formula(Div(Mul(CellVar("Assumptions", "bags_sold_cell"), CellVar("Assumptions", "active_user_rate_cell")), Num(100, 1)))),  \* 366
     Put("C", Label), SaveRow("active_users_row"), Advance(1),  \* 368-370
     Put("A", Label),  \* 372
     Put("B", Formula(Mul(CellVar("Assumptions", "bags_sold_cell"), CellVar("Assumptions", "bag_price_cell")))),  \* 373
     Put("C", Label), SaveRow("bag_revenue_row"), Advance(1),  \* 375-377
     Put("A", Label),  \* 379
     Put("B", Formula(Mul(RowVar(Here, "B", "active_users_row", 0), CellVar("Assumptions", "monthly_views_cell")))),  \* 380
     Put("C", Label), SaveRow("total_views_row"), Advance(1),  \* 382-384
     Put("A", Label),  \* 386
     Put("B", Formula(Mul(RowVar(Here, "B", "total_views_row", 0), CellVar("Assumptions", "cpv_cell")))),  \* 387
     Put("C", Label), SaveRow("ad_revenue_row"), Advance(1),  \* 389-391
     Put("A", Label),  \* 393
     Put("B", Formula(Add(RowVar(Here, "B", "bag_revenue_row", 0), RowVar(Here, "B", "ad_revenue_row", 0)))),  \* 394
     Put("C", Label), SaveRow("total_revenue_row"), Advance(2),  \* 397-399
     Put("A", Label),  \* 401
     Put("B", Formula(Mul(RowVar(Here, "B", "total_views_row", 0), CellVar("Assumptions", "cash_credit_cell")))),  \* 402
     Put("C", Label), Advance(1),  \* 404-405
     Put("A", Label),  \* 407
     Put("B", Formula(Mul(RowVar(Here, "B", "total_views_row", 0), CellVar("Assumptions", "reward_points_cell")))),  \* 408
     Put("C", Label), Advance(1),  \* 410-411
     Put("A", Label),  \* 413
     Put("B", Formula(Mul(RowVar(Here, "B", "total_views_row", 0), CellVar("Assumptions", "margin_per_view_cell")))),  \* 414
     Put("C", Label), SaveRow("gross_margin_row"), Advance(1),  \* 416-418
     Put("A", Label),  \* 420
     Put("B", Formula(Add(RowVar(Here, "B", "bag_revenue_row", 0), RowVar(Here, "B", "gross_margin_row", 0)))),  \* 421
     Put("C", Label), SaveRow("total_margin_row"), Advance(1),  \* 424-426
     Put("A", Label), Put("B", Formula(MarginPctFormula)),  \* 428-429
     Put("C", Label), Advance(2),  \* 432-433
     Put("A", Label), Advance(1),  \* 436-439
     Put("A", Label), Put("B", Formula(CellVar("Assumptions", "monthly_views_cell"))),  \* 441-442
     Put("C", Label), Advance(1),  \* 443-444
     Put("A", Label),  \* 446
     Put("B", Formula(Mul(CellVar("Assumptions", "monthly_views_cell"), CellVar("Assumptions", "cpv_cell")))),  \* 447
     Put("C", Label), Advance(1),  \* 449-450
     Put("A", Label),  \* 452
     Put("B", Formula(Mul(CellVar("Assumptions", "monthly_views_cell"), Add(CellVar("Assumptions", "cash_credit_cell"), CellVar("Assumptions", "reward_points_cell"))))),  \* 453
     Put("C", Label), Advance(1),  \* 455-456
     Put("A", Label),  \* 458
     Put("B", Formula(Mul(CellVar("Assumptions", "monthly_views_cell"), CellVar("Assumptions", "margin_per_view_cell")))),  \* 459
     Put("C", Label), Advance(2),  \* 461-462
     Put("A", Label), Advance(1),  \* 465-468
     Put("A", Label), Put("B", Formula(CellVar("Assumptions", "bag_price_cell"))),  \* 470-471
     Put("C", Label), Advance(1),  \* 473-474
     Put("A", Label), Put("B", Formula(CellVar("Assumptions", "ads_to_recover_cell"))),  \* 476-477
     Put("C", Label), Advance(1),  \* 478-479
     Put("A", Label),  \* 481
     Put("B", Formula(Mul(CellVar("Assumptions", "ads_to_recover_cell"), CellVar("Assumptions", "cpv_cell")))),  \* 482
     Put("C", Label), Advance(1),  \* 484-485
     Put("A", Label),  \* 487
     Put("B", Formula(Mul(CellVar("Assumptions", "ads_to_recover_cell"), Add(CellVar("Assumptions", "cash_credit_cell"), CellVar("Assumptions", "reward_points_cell"))))),  \* 488
     Put("C", Label), SaveRow("user_earnings_row"), Advance(1),  \* 490-492
     Put("A", Label),  \* 494
     Put("B", Formula(Sub(CellVar("Assumptions", "bag_price_cell"), RowVar(Here, "B", "user_earnings_row", 0)))),  \* 495
     Put("C", Label), Advance(2),  \* 498-499
     Put("A", Label), Advance(1),  \* 502-505
     Put("A", Label),  \* 507
     Put("B", Formula(Mul(RowVar(Here, "B", "total_views_row", 0), Add(CellVar("Assumptions", "cash_credit_cell"), CellVar("Assumptions", "reward_points_cell"))))),  \* 508
     Put("C", Label), SaveRow("total_rewards_row"), Advance(1),  \* 510-512
     Put("A", Label),  \* 514
     Put("B", Formula(Div(Mul(RowVar(Here, "B", "total_rewards_row", 0), CellVar("Assumptions", "redemption_rate_cell")), Num(100, 1)))),  \* 515
     Put("C", Label), Advance(1),  \* 517-518
     Put("A", Label),  \* 520
     Put("B", Formula(Div(Mul(CellVar("Assumptions", "bags_sold_cell"), CellVar("Assumptions", "redemption_rate_cell")), Num(100, 1)))),  \* 521
     Put("C", Label), SaveRow("transactions_row"), Advance(1),  \* 523-525
     Put("A", Label),  \* 527
     Put("B", Formula(Mul(RowVar(Here, "B", "transactions_row", 0), CellVar("Assumptions", "avg_basket_cell")))),  \* 528
     Put("C", Label), SaveRow("baseline_basket_row"), Advance(1),  \* 530-532
     Put("A", Label),  \* 534
     Put("B", Formula(Div(Mul(RowVar(Here, "B", "baseline_basket_row", 0), CellVar("Assumptions", "basket_uplift_cell")), Num(100, 1)))),  \* 535
     Put("C", Label), Advance(2),  \* 537-538
     Put("A", Label), Advance(1),  \* 541-544
     Put("A", Label), Advance(1),  \* 546-549
     Put("A", Label), Put("B", Formula(Mul(CellVar("Assumptions", "cpv_cell"), Num(1000, 1)))),  \* 551-552
     Put("C", Label), SaveRow("bagbuddy_cpm_row"), Advance(1),  \* 554-556
     Put("A", Label), Put("B", Formula(CellVar("Assumptions", "cpv_cell"))),  \* 558-559
     Put("C", Label), SaveRow("bagbuddy_cost_per_engagement_row"), Advance(1),  \* 561-563
     Put("A", Label),  \* 565
     Put("B", Formula(Div(RowVar(Here, "B", "ad_revenue_row", 0), RowVar(Here, "B", "transactions_row", 0)))),  \* 566
     Put("C", Label), Advance(2),  \* 568-569
     Put("A", Label), Advance(1),  \* 571-574
     Put("A", Label), Put("B", Formula(CellVar("Assumptions", "meta_cpm_cell"))),  \* 576-577
     Put("C", Label), SaveRow("meta_cpm_row"), Advance(1),  \* 579-581
     Put("A", Label), Put("B", Formula(CellVar("Assumptions", "ctr_cell"))),  \* 583-584
     Put("C", Label), Advance(1),  \* 586-587
     Put("A", Label),  \* 589
     Put("B", Formula(Div(Div(CellVar("Assumptions", "meta_cpm_cell"), Num(1000, 1)), Div(CellVar("Assumptions", "ctr_cell"), Num(100, 1))))),  \* 590
     Put("C", Label), SaveRow("meta_cost_per_engagement_row"), Advance(2),  \* 592-594
     Put("A", Label), Advance(1),  \* 596-599
     Put("A", Label),  \* 601
     Put("B", Formula(Div(Sub(RowVar(Here, "B", "meta_cost_per_engagement_row", 0), RowVar(Here, "B", "bagbuddy_cost_per_engagement_row", 0)), RowVar(Here, "B", "meta_cost_per_engagement_row", 0)))),  \* 602
     Put("C", Label), Advance(1),  \* 605-606
     Put("A", Label), Put("B", Label), Put("C", Label), Advance(1),  \* 608-612
     Put("A", Label),  \* 614
     Put("B", Formula(Sub(RowVar(Here, "B", "bagbuddy_cpm_row", 0), RowVar(Here, "B", "meta_cpm_row", 0)))),  \* 615
     Put("C", Label) >>  \* 617

\* create_commerce_reward_excel, Dashboard (export_commerce_reward_excel.py 625-675)
DashboardSheet ==
  << Sheet("Dashboard"),  \* 625
     SetRow(1), Put("A", Label), Advance(2),  \* 626-632
     Put("A", Label), Advance(1),  \* 634-637
     Put("A", Label), Put("B", Formula(RowVar("Calculations", "B", "total_revenue_row", 0))),  \* 639-640
     Put("C", Label), Advance(1),  \* 643-644
     Put("A", Label), Put("B", Formula(RowVar("Calculations", "B", "total_margin_row", 0))),  \* 646-647
     Put("C", Label), Advance(1),  \* 650-651
     Put("A", Label),  \* 653
     Put("B", Formula(Div(RowVar("Calculations", "B", "total_margin_row", 0), RowVar("Calculations", "B", "total_revenue_row", 0)))),  \* 654
     Put("C", Label), Advance(2),  \* 657-658
     Put("A", Label), Put("B", Formula(UserNetCostRef)),  \* 660-661
     Put("C", Label), Advance(2),  \* 664-665
     Put("A", Label) >>  \* 667

\* create_commerce_reward_excel, Scenarios (export_commerce_reward_excel.py 678-806)
ScenariosSheet ==
  << Sheet("Scenarios"),  \* 678
     SetRow(1), Put("A", Label), Advance(2),  \* 679-684
     Put("A", Label), Put("B", Label), Put("C", Label), Put("D", Label), Put("E", Label), Advance(1),  \* 692-699
     Put("A", Label), Put("B", Computed), Put("C", Computed), Put("D", Computed), Put("E", Label),  \* 707-711
     Put("F", Label), Advance(1),  \* 712-715
     Put("A", Label), Put("B", Computed), Put("C", Computed), Put("D", Computed), Put("E", Label),  \* 717-721
     Put("F", Label), Advance(1),  \* 722-725
     Put("A", Label), Put("B", Computed), Put("C", Computed), Put("D", Computed), Put("E", Label),  \* 727-731
     Put("F", Label), Advance(1),  \* 732-735
     Put("A", Label), Put("B", Computed), Put("C", Computed), Put("D", Computed), Put("E", Label),  \* 737-741
     Put("F", Label), Advance(2),  \* 742-745
     Put("A", Label), Put("B", Computed), Put("C", Computed), Put("D", Computed), Put("E", Label),  \* 752-756
     Put("F", Label), Advance(1),  \* 757-760
     Put("A", Label), Put("B", Computed), Put("C", Computed), Put("D", Computed), Put("E", Label),  \* 762-766
     Put("F", Label), Advance(2),  \* 767-770
     Put("A", Label), Advance(1),  \* 773-776
     Put("A", Label), Put("B", Computed), Put("C", Computed), Put("D", Computed), Put("F", Label),  \* 778-782
     Advance(1),  \* 783
     Put("A", Label), Put("B", Computed), Put("C", Computed), Put("D", Computed), Put("E", Label),  \* 785-789
     Put("F", Label), Advance(1),  \* 790-791
     Put("A", Label), Put("B", Computed), Put("C", Computed), Put("D", Computed), Put("E", Label),  \* 793-797
     Put("F", Label) >>  \* 798

\* create_commerce_reward_excel, Investor Metrics (export_commerce_reward_excel.py 809-916)
InvestorMetricsSheet ==
  << Sheet("Investor Metrics"),  \* 809
     SetRow(1), Put("A", Label), Advance(2),  \* 810-815
     Put("A", Label), Advance(1),  \* 817-820
     Put("A", Label), Put("B", Editable(2, 1)), Put("C", Label), SaveCell("cac_cell", "B"), Advance(1),  \* 822-828
     Put("A", Label), Put("B", Editable(12, 1)), Put("C", Label), SaveCell("lifetime_cell", "B"),  \* 830-834
     Advance(2),  \* 835
     Put("A", Label), Advance(1),  \* 837-840
     Put("A", Label),  \* 842
     Put("B", Formula(Mul(CellVar(Here, "lifetime_cell"), CellVar("Assumptions", "bag_price_cell")))),  \* 843
     Put("C", Label), SaveRow("bag_ltv_row"), Advance(1),  \* 845-847
     Put("A", Label),  \* 849
     Put("B", Formula(Mul(Mul(CellVar(Here, "lifetime_cell"), CellVar("Assumptions", "monthly_views_cell")), CellVar("Assumptions", "margin_per_view_cell")))),  \* 850
     Put("C", Label), SaveRow("ad_ltv_row"), Advance(1),  \* 852-854
     Put("A", Label),  \* 856
     Put("B", Formula(Add(RowVar(Here, "B", "bag_ltv_row", 0), RowVar(Here, "B", "ad_ltv_row", 0)))),  \* 857
     Put("C", Label), SaveRow("ltv_row"), Advance(2),  \* 860-862
     Put("A", Label), Advance(1),  \* 864-867
     Put("A", Label), Put("B", Formula(LtvCacFormula)),  \* 869-870
     Put("C", Label), Advance(1),  \* 873-874
     Put("A", Label),  \* 876
     Put("B", Formula(Add(CellVar("Assumptions", "bag_price_cell"), Mul(CellVar("Assumptions", "monthly_views_cell"), CellVar("Assumptions", "margin_per_view_cell"))))),  \* 877
     Put("C", Label), SaveRow("monthly_contrib_row"), Advance(1),  \* 879-881
     Put("A", Label), Put("B", Formula(PaybackFormula)),  \* 883-884
     Put("C", Label), Advance(2),  \* 887-888
     Put("A", Label), Advance(1),  \* 890-893
     Put("A", Label),  \* 895
     Put("B", Formula(Mul(RowVar("Calculations", "B", "total_revenue_row", 0), Num(12, 1)))),  \* 896
     Put("C", Label), Advance(1),  \* 898-899
     Put("A", Label),  \* 901
     Put("B", Formula(Mul(RowVar("Calculations", "B", "total_margin_row", 0), Num(12, 1)))),  \* 902
     Put("C", Label), Advance(1),  \* 905-906
     Put("A", Label),  \* 908
     Put("B", Formula(Mul(Mul(Mul(RowVar("Calculations", "B", "transactions_row", 0), Num(12, 1)), CellVar("Assumptions", "avg_basket_cell")), Num(23, 20)))),  \* 909
     Put("C", Label) >>  \* 911

\* create_commerce_reward_excel, Sensitivity Analysis (export_commerce_reward_excel.py 919-1060)
SensitivityAnalysisSheet ==
  << Sheet("Sensitivity Analysis"),  \* 919
     SetRow(1), Put("A", Label), Advance(2),  \* 920-925
     Put("A", Label), Advance(1),  \* 928-931
     Put("A", Label), Advance(1),  \* 932-935
     Put("A", Label), Advance(2),  \* 936-939
     Put("A", Label), Put("B", Label), Put("C", Label), Put("D", Label), Put("E", Label), Advance(1) >>  \* 941-948
  \o Times(8, << Put("A", Computed), Put("B", Computed), Put("C", Computed), Put("D", Computed), Put("E", Computed),  \* 956-963
                 Advance(1) >>)  \* 965
  \o << Advance(2),  \* 967
        Put("A", Label), Advance(1),  \* 970-973
        Put("A", Label), Advance(1),  \* 974-977
        Put("A", Label), Advance(2),  \* 978-981
        Put("A", Label), Put("B", Label), Put("C", Label), Put("D", Label), Put("E", Label), Advance(1) >>  \* 983-990
  \o Times(8, << Put("A", Computed), Put("B", Computed), Put("C", Computed), Put("D", Computed), Put("E", Computed),  \* 998-1006
                 Advance(1) >>)  \* 1008
  \o << Advance(2),  \* 1010
        Put("A", Label), Advance(1),  \* 1013-1016
        Put("A", Label), Advance(1),  \* 1017-1020
        Put("A", Label), Advance(2),  \* 1021-1024
        Put("A", Label), Put("B", Label), Put("C", Label), Put("D", Label), Put("E", Label), Advance(1) >>  \* 1026-1033
  \o Times(7, << Put("A", Computed), Put("B", Computed), Put("C", Computed), Put("D", Computed), Put("E", Computed),  \* 1042-1050
                 Advance(1) >>)  \* 1052

\* create_commerce_reward_excel, Visual Comparisons (export_commerce_reward_excel.py 1063-1269)
VisualComparisonsSheet ==
  << Sheet("Visual Comparisons"),  \* 1063
     SetRow(1), Put("A", Label), Advance(2),  \* 1064-1069
     Put("A", Label), Advance(1),  \* 1072-1075
     Put("A", Label), Put("B", Label), Put("C", Label), Advance(1),  \* 1078-1084
     Put("A", Label), Put("B", Formula(RowVar("Calculations", "B", "bagbuddy_cpm_row", 0))),  \* 1086-1087
     Put("C", Formula(RowVar("Calculations", "B", "bagbuddy_cost_per_engagement_row", 0))),  \* 1088
     Put("D", Label), SaveRow("kshipra_data_row"), Advance(1),  \* 1089-1091
     Put("A", Label), Put("B", Formula(RowVar("Calculations", "B", "meta_cpm_row", 0))),  \* 1093-1094
     Put("C", Formula(RowVar("Calculations", "B", "meta_cost_per_engagement_row", 0))),  \* 1095
     Put("D", Label), SaveRow("meta_data_row"), Advance(1),  \* 1096-1098
     Advance(12),  \* 1116
     Put("A", Label), Advance(1),  \* 1119-1122
     Put("A", Label), Put("B", Label), Advance(1),  \* 1124-1128
     Put("A", Label), Put("B", Formula(CellVar("Assumptions", "bag_price_cell"))),  \* 1130-1131
     Put("C", Label), SaveRow("user_chart_start"), Advance(1),  \* 1133-1135
     Put("A", Label),  \* 1137
     Put("B", Formula(Mul(Neg(CellVar("Assumptions", "ads_to_recover_cell")), CellVar("Assumptions", "cash_credit_cell")))),  \* 1138
     Put("C", Label), Advance(1),  \* 1140-1141
     Put("A", Label),  \* 1143
     Put("B", Formula(Mul(Neg(CellVar("Assumptions", "ads_to_recover_cell")), CellVar("Assumptions", "reward_points_cell")))),  \* 1144
     Put("C", Label), Advance(1),  \* 1146-1147
     Put("A", Label), Put("B", Formula(UserNetCostRef)),  \* 1149-1150
     Put("C", Label), SaveRow("user_chart_end"), Advance(1),  \* 1153-1155
     Advance(12),  \* 1173
     Put("A", Label), Advance(1),  \* 1176-1179
     Put("A", Label), Put("B", Label), Put("C", Label), Put("D", Label), Advance(1),  \* 1181-1189
     SaveRow("investor_chart_start"), Put("A", Label),  \* 1191-1192
     Put("B", Formula(Div(Mul(Num(12, 1), Add(CellVar("Assumptions", "bag_price_cell"), Mul(CellVar("Assumptions", "monthly_views_cell"), CellVar("Assumptions", "margin_per_view_cell")))), Num(2, 1)))),  \* 1194
     Put("C", Label), Put("D", Label), Advance(1),  \* 1196-1199
     Put("A", Label),  \* 1201
     Put("B", Formula(Div(Num(2, 1), Add(CellVar("Assumptions", "bag_price_cell"), Mul(CellVar("Assumptions", "monthly_views_cell"), CellVar("Assumptions", "margin_per_view_cell")))))),  \* 1203
     Put("C", Label), Put("D", Label), Advance(1),  \* 1205-1208
     Put("A", Label),  \* 1210
     Put("B", Formula(Div(RowVar("Calculations", "B", "total_margin_row", 0), RowVar("Calculations", "B", "total_revenue_row", 0)))),  \* 1211
     Put("C", Label), Put("D", Label), SaveRow("investor_chart_end"), Advance(2),  \* 1213-1217
     Put("A", Label), Advance(1),  \* 1220-1223
     Put("A", Label), Put("B", Label), Advance(1),  \* 1225-1229
     SaveRow("store_chart_start"), Put("A", Label),  \* 1231-1232
     Put("B", Formula(Div(Mul(RowVar("Calculations", "B", "total_rewards_row", 0), CellVar("Assumptions", "redemption_rate_cell")), Num(100, 1)))),  \* 1233
     Put("C", Label), Advance(1),  \* 1235-1236
     Put("A", Label), Put("B", Formula(RowVar("Calculations", "B", "baseline_basket_row", 0))),  \* 1238-1239
     Put("C", Label), Advance(1),  \* 1241-1242
     Put("A", Label),  \* 1244
     Put("B", Formula(Div(Mul(RowVar("Calculations", "B", "baseline_basket_row", 0), CellVar("Assumptions", "basket_uplift_cell")), Num(100, 1)))),  \* 1245
     Put("C", Label), SaveRow("store_chart_end"), Advance(1) >>  \* 1247-1249

\* create_commerce_reward_excel, References & Data Sources (export_commerce_reward_excel.py 1272-1474)
ReferencesDataSourcesSheet ==
  << Sheet("References & Data Sources"),  \* 1272
     SetRow(1), Put("A", Label), Advance(2),  \* 1273-1278
     Put("A", Label), Advance(2),  \* 1280-1283
     Put("A", Label), Advance(1),  \* 1286-1289
     Put("A", Label), Put("B", Label), Put("C", Label), Put("D", Label), Advance(1),  \* 1291-1299
     Put("A", Label), Put("B", Label), Put("C", Label), Put("D", Label), Advance(1),  \* 1301-1306
     Put("A", Label), Put("B", Label), Put("C", Label), Put("D", Label), Advance(1),  \* 1308-1313
     Put("A", Label), Put("B", Label), Put("C", Label), Put("D", Label), Advance(1),  \* 1315-1320
     Put("A", Label), Advance(2),  \* 1322-1325
     Put("A", Label), Advance(1),  \* 1328-1331
     Put("A", Label), Put("B", Label), Put("C", Label), Put("D", Label), Advance(1),  \* 1333-1341
     Put("A", Label), Put("B", Label), Put("C", Label), Put("D", Label), Advance(1),  \* 1343-1348
     Put("A", Label), Put("B", Label), Put("C", Label), Put("D", Label), Advance(1),  \* 1350-1355
     Put("A", Label), Put("B", Label), Put("C", Label), Put("D", Label), Advance(1),  \* 1357-1362
     Put("A", Label), Put("B", Label), Put("C", Label), Put("D", Label), Advance(2),  \* 1364-1369
     Put("A", Label), Advance(1),  \* 1372-1375
     Put("A", Label), Put("B", Label), Put("C", Label), Put("D", Label), Advance(1),  \* 1377-1385
     Put("A", Label), Put("B", Label), Put("C", Label), Put("D", Label), Advance(1),  \* 1387-1392
     Put("A", Label), Put("B", Label), Put("C", Label), Put("D", Label), Advance(1),  \* 1394-1399
     Put("A", Label), Put("B", Label), Put("C", Label), Put("D", Label), Advance(1),  \* 1401-1406
     Put("A", Label), Put("B", Label), Put("C", Label), Put("D", Label), Advance(2),  \* 1408-1413
     Put("A", Label), Advance(1),  \* 1416-1419
     Put("A", Label), Put("B", Label), Put("C", Label), Advance(1) >>  \* 1432-1438
  \o Times(8, << Put("A", Label), Put("B", Label), Put("C", Label), Advance(1) >>)  \* 1441-1445
  \o << Advance(2),  \* 1447
        Put("A", Label), Advance(1) >>  \* 1448-1451
  \o Times(8, << Put("A", Label), Advance(1) >>)  \* 1465-1468

---------------------------------------------------------------------------
(* The two export functions, statement by statement *)

create_formula_based_excel ==
  RoiCalculatorSheet \o CompareChannelsSheet \o ResearchReferencesSheet

create_commerce_reward_excel ==
  AssumptionsSheet \o CalculationsSheet \o DashboardSheet \o ScenariosSheet
  \o InvestorMetricsSheet \o SensitivityAnalysisSheet
  \o VisualComparisonsSheet \o ReferencesDataSourcesSheet

Builders == {"create_formula_based_excel", "create_commerce_reward_excel"}

Program(b) == IF b = "create_formula_based_excel"
              THEN create_formula_based_excel
              ELSE create_commerce_reward_excel

\* an f-string formula becomes text when its statement runs: every
\* {name} and {name+k} is replaced by the present value of the local
RowOf(nm, name, off) == nm[name].r + off

Ref(a) == [op |-> "ref", a |-> a]

RECURSIVE Resolve(_, _, _)
Resolve(t, sheet, nm) ==
  CASE t.op = "num" -> t
    [] t.op = "cellvar" ->
         Ref(<<IF t.s = Here THEN sheet ELSE t.s, nm[t.n].c, nm[t.n].r>>)
    [] t.op = "rowvar" ->
         Ref(<<IF t.s = Here THEN sheet ELSE t.s, t.c, RowOf(nm, t.n, t.off)>>)
    [] t.op \in {"add", "sub", "mul", "div"} ->
         [op |-> t.op, l |-> Resolve(t.l, sheet, nm), r |-> Resolve(t.r, sheet, nm)]
    [] t.op \in {"neg", "int"} ->
         [op |-> t.op, x |-> Resolve(t.x, sheet, nm)]
    [] t.op = "ifzero" ->
         [op |-> t.op, c |-> Resolve(t.c, sheet, nm),
          t |-> Resolve(t.t, sheet, nm), e |-> Resolve(t.e, sheet, nm)]

\* the cells a formula text mentions
RECURSIVE Refs(_)
Refs(e) ==
  CASE e.op = "num" -> {}
    [] e.op = "ref" -> {e.a}
    [] e.op \in {"add", "sub", "mul", "div"} -> Refs(e.l) \cup Refs(e.r)
    [] e.op \in {"neg", "int"} -> Refs(e.x)
    [] e.op = "ifzero" -> Refs(e.c) \cup Refs(e.t) \cup Refs(e.e)

Running == ~saved /\ pc <= Len(Program(builder))
Stmt == Program(builder)[pc]

Write(store, a, x) == (a :> x) @@ store

SelectSheet ==
  /\ Running /\ Stmt.i = "sheet"
  /\ ws' = Stmt.s
  /\ pc' = pc + 1
  /\ UNCHANGED <<calcvars, instvars, expvars, builder, row, names, cells, saved, edits, edited>>

SetRowTo ==
  /\ Running /\ Stmt.i = "setrow"
  /\ row' = Stmt.n
  /\ pc' = pc + 1
  /\ UNCHANGED <<calcvars, instvars, expvars, builder, ws, names, cells, saved, edits, edited>>

AdvanceRow ==
  /\ Running /\ Stmt.i = "advance"
  /\ row' = row + Stmt.n
  /\ pc' = pc + 1
  /\ UNCHANGED <<calcvars, instvars, expvars, builder, ws, names, cells, saved, edits, edited>>

RememberRow ==
  /\ Running /\ Stmt.i = "saverow"
  /\ names' = (Stmt.n :> [c |-> "", r |-> row]) @@ names
  /\ pc' = pc + 1
  /\ UNCHANGED <<calcvars, instvars, expvars, builder, ws, row, cells, saved, edits, edited>>

RememberCell ==
  /\ Running /\ Stmt.i = "savecell"
  /\ names' = (Stmt.n :> [c |-> Stmt.c, r |-> row]) @@ names
  /\ pc' = pc + 1
  /\ UNCHANGED <<calcvars, instvars, expvars, builder, ws, row, cells, saved, edits, edited>>

PutLabel ==
  /\ Running /\ Stmt.i = "put" /\ Stmt.x.k = "label"
  /\ cells' = Write(cells, <<ws, Stmt.c, row>>, Stmt.x)
  /\ pc' = pc + 1
  /\ UNCHANGED <<calcvars, instvars, expvars, builder, ws, row, names, saved, edits, edited>>

PutLiteral ==
  /\ Running /\ Stmt.i = "put" /\ Stmt.x.k = "literal"
  /\ cells' = Write(cells, <<ws, Stmt.c, row>>, Stmt.x)
  /\ pc' = pc + 1
  /\ UNCHANGED <<calcvars, instvars, expvars, builder, ws, row, names, saved, edits, edited>>

PutComputed ==
  /\ Running /\ Stmt.i = "put" /\ Stmt.x.k = "computed"
  /\ cells' = Write(cells, <<ws, Stmt.c, row>>, Stmt.x)
  /\ pc' = pc + 1
  /\ UNCHANGED <<calcvars, instvars, expvars, builder, ws, row, names, saved, edits, edited>>

PutFormula ==
  /\ Running /\ Stmt.i = "put" /\ Stmt.x.k = "formula"
  /\ cells' = Write(cells, <<ws, Stmt.c, row>>, Formula(Resolve(Stmt.x.e, ws, names)))
  /\ pc' = pc + 1
  /\ UNCHANGED <<calcvars, instvars, expvars, builder, ws, row, names, saved, edits, edited>>

SaveWorkbook ==
  /\ ~saved /\ pc = Len(Program(builder)) + 1
  /\ saved' = TRUE
  /\ UNCHANGED <<calcvars, instvars, expvars, builder, pc, ws, row, names, cells, edits, edited>>

---------------------------------------------------------------------------
(* The saved workbook opened in a spreadsheet application *)

\* Excel INT: the largest integer not above the argument
ExcelInt(q) == IF IsErr(q) THEN Err ELSE Rat(Floor(q), 1)

RECURSIVE Eval(_, _)
RECURSIVE CellValue(_, _)
Eval(store, e) ==
  CASE e.op = "num" -> e.v
    [] e.op = "ref" -> CellValue(store, e.a)
    [] e.op = "add" -> RAdd(Eval(store, e.l), Eval(store, e.r))
    [] e.op = "sub" -> RSub(Eval(store, e.l), Eval(store, e.r))
    [] e.op = "mul" -> RMul(Eval(store, e.l), Eval(store, e.r))
    [] e.op = "div" -> RDiv(Eval(store, e.l), Eval(store, e.r))
    [] e.op = "neg" -> RNeg(Eval(store, e.x))
    [] e.op = "int" -> ExcelInt(Eval(store, e.x))
    [] e.op = "ifzero" ->
         LET c == Eval(store, e.c)
         IN IF IsErr(c) THEN Err
            ELSE IF IsZero(c) THEN Eval(store, e.t) ELSE Eval(store, e.e)

\* a blank cell counts as 0 in arithmetic, a text cell is #VALUE!
CellValue(store, a) ==
  IF a \notin DOMAIN store THEN Zero
  ELSE CASE store[a].k = "literal" -> store[a].v
         [] store[a].k = "formula" -> Eval(store, store[a].e)
         [] store[a].k = "label" -> Err
         [] store[a].k = "computed" -> Zero

FormulaCells(store) == {a \in DOMAIN store : store[a].k = "formula"}
EditableCells(store) ==
  {a \in DOMAIN store : store[a].k = "literal" /\ store[a].editable}

MaxEdits == 1
MaxCalls == 2
MaxCampaigns == 2

\* the user overtypes one yellow cell; the application recalculates
EditValues == {Zero, Rat(-1, 100), Rat(1, 1)}

EditCell(a, v) ==
  /\ saved /\ edits < MaxEdits
  /\ a \in DOMAIN cells /\ cells[a].k = "literal" /\ cells[a].editable
  /\ cells[a].v # v
  /\ cells' = [cells EXCEPT ![a].v = v]
  /\ edits' = edits + 1
  /\ edited' = a
  /\ UNCHANGED <<calcvars, instvars, expvars, builder, pc, ws, row, names, saved>>

Edit == \E a \in EditableCells(cells) : \E v \in EditValues : EditCell(a, v)

\* no calculator object is involved in building or editing a workbook
NoCalculator ==
  /\ calculator = "" /\ campaign_data = <<>> /\ investment_data = <<>>
  /\ assumptions = <<>> /\ campaigns = <<>> /\ given = <<>>
  /\ results = <<>> /\ first = <<>> /\ ncalls = 0
  /\ called = <<>> /\ roi_calculators = <<>>

InitWorkbook ==
  /\ NoExport
  /\ builder \in Builders
  /\ pc = 1
  /\ ws = ""
  /\ row = 0
  /\ names = [n \in {} |-> [c |-> "", r |-> 0]]
  /\ cells = [a \in {} |-> Label]
  /\ saved = FALSE
  /\ edits = 0
  /\ edited = <<>>
  /\ NoCalculator
  /\ NoInstances

NextWorkbook ==
  \/ SelectSheet
  \/ SetRowTo
  \/ AdvanceRow
  \/ RememberRow
  \/ RememberCell
  \/ PutLabel
  \/ PutLiteral
  \/ PutComputed
  \/ PutFormula
  \/ SaveWorkbook
  \/ Edit

SpecWorkbook == InitWorkbook /\ [][NextWorkbook]_vars


---------------------------------------------------------------------------
(* Properties of the workbooks *)

Formulas == "create_formula_based_excel"
Commerce == "create_commerce_reward_excel"
RoiSheet == "ROI Calculator"
ScenarioColumns == {"B", "C", "D"}

\* the cell in column col of the row a saved local denotes, off rows below
Cell(sheet, col, name, off) == <<sheet, col, names[name].r + off>>
\* the cell a saved *_cell local denotes
Named(sheet, name) == <<sheet, names[name].c, names[name].r>>
ValueOf(a) == CellValue(cells, a)

\* every cell a formula cell reads, directly or through other formulas
RECURSIVE Precedents(_, _)
Precedents(store, a) ==
  IF a \notin DOMAIN store \/ store[a].k # "formula" THEN {}
  ELSE LET direct == Refs(store[a].e)
       IN direct \cup UNION {Precedents(store, b) : b \in direct}

\* cells that are the right operand of a division in a formula
RECURSIVE DivisorCells(_)
DivisorCells(e) ==
  CASE e.op \in {"num", "ref"} -> {}
    [] e.op = "div" ->
         (IF e.r.op = "ref" THEN {e.r.a} ELSE DivisorCells(e.r)) \cup DivisorCells(e.l)
    [] e.op \in {"add", "sub", "mul"} -> DivisorCells(e.l) \cup DivisorCells(e.r)
    [] e.op \in {"neg", "int"} -> DivisorCells(e.x)
    [] e.op = "ifzero" ->
         DivisorCells(e.c) \cup DivisorCells(e.t) \cup DivisorCells(e.e)

\* number format 0.00: two decimals, halves away from zero
Display2(q) ==
  IF IsErr(q) THEN Err
  ELSE LET n == q[1] * 100
           d == q[2]
           m == (2 * Abs(n) + d) \div (2 * d)
       IN Rat(IF n < 0 THEN -m ELSE m, 100)

\* C1: in a saved workbook of either builder, whatever the user has typed
\* into the input cells, a formula cell that divides by a cell holding 0
\* shows exactly 0 and never an error value.
C1_RatioCellsAreZeroOnZeroDivisor ==
  saved =>
    \A a \in FormulaCells(cells) :
      \A d \in DivisorCells(cells[a].e) :
        ValueOf(d) = Zero => ValueOf(a) = Zero

\* C5: on the ROI Calculator sheet, overtyping one input cell changes no
\* formula text, leaves the value of every formula cell that does not read
\* the cell (directly or transitively) as it was, and gives every formula
\* cell the value of its formula over the new inputs; a scenario's scan
\* rate or conversion rate moves no result of the other two scenario
\* columns and shows in its own scans or conversions cell; average revenue
\* moves no scan, impression or conversion count.
OwnColumn(name) ==
  CASE name \in {"scan_rate_cons", "conv_rate_cons"} -> "B"
    [] name \in {"scan_rate_mod", "conv_rate_mod"} -> "C"
    [] name \in {"scan_rate_opt", "conv_rate_opt"} -> "D"
RateNames == {"scan_rate_cons", "scan_rate_mod", "scan_rate_opt",
              "conv_rate_cons", "conv_rate_mod", "conv_rate_opt"}
CountRows == {"phys_imp_row", "scans_row", "dig_imp_row", "total_imp_row", "conv_row"}
RoiFormulaCells == {a \in FormulaCells(cells) : a[1] = RoiSheet}
Unmoved(a) == CellValue(cells', a) = CellValue(cells, a)

C5_Step ==
  (saved /\ builder = Formulas /\ edits' = edits + 1 /\ edited'[1] = RoiSheet) =>
    /\ \A a \in DOMAIN cells : a # edited' => cells'[a] = cells[a]
    /\ \A a \in RoiFormulaCells :
         /\ edited' \notin Precedents(cells, a) => Unmoved(a)
         /\ CellValue(cells', a) = Eval(cells', cells[a].e)
    /\ \A n \in RateNames :
         edited' = Named(RoiSheet, n) =>
           \A a \in RoiFormulaCells : a[2] # OwnColumn(n) => Unmoved(a)
    /\ \A col \in ScenarioColumns :
         \A n \in {"scan_rate_cons", "scan_rate_mod", "scan_rate_opt"} :
           (edited' = Named(RoiSheet, n) /\ col = OwnColumn(n)) =>
             CellValue(cells', Cell(RoiSheet, col, "scans_row", 0)) =
               ExcelInt(RDiv(RMul(ValueOf(Cell(RoiSheet, col, "bags_row", 0)),
                                  cells'[edited'].v), Rat(100, 1)))
    /\ edited' = Named(RoiSheet, "avg_revenue") =>
         \A col \in ScenarioColumns : \A r \in CountRows :
           Unmoved(Cell(RoiSheet, col, r, 0))

C5_EditMovesOnlyDependents == [][C5_Step]_vars

C5_Witness ==
  /\ saved /\ builder = Formulas /\ edits = 1
  /\ edited = Named(RoiSheet, "scan_rate_cons")
  /\ ValueOf(Cell(RoiSheet, "B", "scans_row", 0)) = Zero
  /\ ValueOf(Cell(RoiSheet, "C", "scans_row", 0)) = Rat(125, 1)

\* C7: every count cell of the ROI Calculator sheet holds its product
\* truncated toward zero, also when the product is negative.
C7_SheetCountsTruncateTowardZero ==
  (saved /\ builder = Formulas) =>
    \A n \in {"scan_rate_cons", "scan_rate_mod", "scan_rate_opt"} :
      LET product == RDiv(RMul(ValueOf(Cell(RoiSheet, OwnColumn(n), "bags_row", 0)),
                               ValueOf(Named(RoiSheet, n))), Rat(100, 1))
      IN ValueOf(Cell(RoiSheet, OwnColumn(n), "scans_row", 0)) = Rat(Trunc(product), 1)

\* C8: whenever the input cells hold cost_per_slot = 0.15, bags = 5000 and
\* quarters = 1, the campaign cost cells hold 750, and when the
\* conservative scan rate is 2.0 as well the conservative scans cell
\* holds 100.
C8_CostAndScans ==
  (/\ saved /\ builder = Formulas
   /\ ValueOf(Named(RoiSheet, "cost_per_slot")) = Rat(15, 100)
   /\ ValueOf(Named(RoiSheet, "bags_per_quarter")) = Rat(5000, 1)
   /\ ValueOf(Named(RoiSheet, "num_quarters")) = Rat(1, 1)) =>
    /\ \A col \in ScenarioColumns :
         ValueOf(Cell(RoiSheet, col, "cost_row", 0)) = Rat(750, 1)
    /\ ValueOf(Named(RoiSheet, "scan_rate_cons")) = Rat(2, 1) =>
         ValueOf(Cell(RoiSheet, "B", "scans_row", 0)) = Rat(100, 1)

C8_Witness ==
  /\ saved /\ builder = Formulas
  /\ ValueOf(Named(RoiSheet, "cost_per_slot")) = Rat(15, 100)
  /\ ValueOf(Named(RoiSheet, "bags_per_quarter")) = Rat(5000, 1)
  /\ ValueOf(Named(RoiSheet, "num_quarters")) = Rat(1, 1)
  /\ ValueOf(Named(RoiSheet, "scan_rate_cons")) = Rat(2, 1)
  /\ ValueOf(Cell(RoiSheet, "B", "cost_row", 0)) = Rat(750, 1)
  /\ ValueOf(Cell(RoiSheet, "B", "scans_row", 0)) = Rat(100, 1)

\* C9: in any scenario column where conversions are 20, average revenue
\* is 25 and the campaign cost is 750, the revenue cell holds 500 and the
\* ROI cell, two rows below it, shows -33.33.
C9_RevenueAndRoi ==
  (saved /\ builder = Formulas) =>
    \A col \in ScenarioColumns :
      (/\ ValueOf(Cell(RoiSheet, col, "conv_row", 0)) = Rat(20, 1)
       /\ ValueOf(Named(RoiSheet, "avg_revenue")) = Rat(25, 1)
       /\ ValueOf(Cell(RoiSheet, col, "cost_row", 0)) = Rat(750, 1)) =>
        /\ ValueOf(Cell(RoiSheet, col, "revenue_row", 0)) = Rat(500, 1)
        /\ Display2(ValueOf(Cell(RoiSheet, col, "revenue_row", 2))) = Rat(-3333, 100)

C9_Witness ==
  /\ saved /\ builder = Formulas
  /\ ValueOf(Cell(RoiSheet, "B", "conv_row", 0)) = Rat(20, 1)
  /\ ValueOf(Named(RoiSheet, "avg_revenue")) = Rat(25, 1)
  /\ ValueOf(Cell(RoiSheet, "B", "cost_row", 0)) = Rat(750, 1)
  /\ ValueOf(Cell(RoiSheet, "B", "revenue_row", 2)) = Rat(-100, 3)

\* C10: at every point of a build and in the saved workbook, every cell a
\* formula mentions (same sheet, another sheet, or a row computed as
\* name+k) has already been written with a number or a formula; as it
\* happens none of them is a number supplied by the calculator.
C10_ReferencesResolve ==
  \A a \in FormulaCells(cells) :
    \A r \in Refs(cells[a].e) :
      r \in DOMAIN cells /\ cells[r].k \in {"literal", "formula"}

C10_Witness ==
  /\ saved /\ builder = Commerce
  /\ \E a \in FormulaCells(cells) :
       /\ a[1] = "Dashboard"
       /\ Cell("Calculations", "B", "user_earnings_row", 1) \in Refs(cells[a].e)
  /\ cells[Cell("Calculations", "B", "user_earnings_row", 1)].k = "formula"
  /\ \E a \in FormulaCells(cells) : \E r \in Refs(cells[a].e) : r[1] # a[1]

---------------------------------------------------------------------------
(* Python numbers and dictionaries *)

\* Python int(x): the fractional part is dropped
PyInt(q) == IF IsErr(q) THEN Err ELSE Rat(Trunc(q), 1)

Pow10(k) == CASE k = 0 -> 1 [] k = 2 -> 100 [] k = 4 -> 10000

\* Python round(x, k): to k decimals, an exact half goes to the even digit
\* (the float's binary rounding error is not modelled)
PyRound(q, k) ==
  IF IsErr(q) THEN Err
  ELSE LET n == q[1] * Pow10(k)
           d == q[2]
           f == n \div d
           twice == 2 * (n - f * d)
           r == IF twice < d THEN f
                ELSE IF twice > d THEN f + 1
                ELSE IF f % 2 = 0 THEN f ELSE f + 1
       IN Rat(r, Pow10(k))

\* d.get(key, default)
Get(d, key, default) == IF key \in DOMAIN d THEN d[key] ELSE default

Pct(q) == RDiv(q, Rat(100, 1))
Times100(q) == RMul(q, Rat(100, 1))
RMin(p, q) == IF RLess(q, p) THEN q ELSE p
Positive(q) == RLess(Zero, q)

\* what a call hands back: a value, or an exception
Return(v) == [raised |-> FALSE, value |-> v]
Raise == [raised |-> TRUE, value |-> Err]
\* a method whose last expression is a number returns it unless computing
\* it raised
ReturnNumber(q) == IF IsErr(q) THEN Raise ELSE Return(q)

---------------------------------------------------------------------------
(* FlyerCampaignROICalculator *)

DEFAULT_PRINT_COST == Rat(12, 100)
DEFAULT_DISTRIBUTION_COST == Rat(10, 100)
DEFAULT_RESPONSE_RATE == Rat(8, 10)
Flyer_DEFAULT_CONVERSION_RATE == Rat(10, 1)

Flyer_calculate_num_flyers(d) == Get(d, "num_flyers", Zero)
Flyer_calculate_print_cost_per_flyer(d) == Get(d, "print_cost_per_flyer", DEFAULT_PRINT_COST)
Flyer_calculate_distribution_cost_per_flyer(d) ==
  Get(d, "distribution_cost_per_flyer", DEFAULT_DISTRIBUTION_COST)
Flyer_calculate_total_print_cost(d) ==
  PyRound(RMul(Flyer_calculate_num_flyers(d), Flyer_calculate_print_cost_per_flyer(d)), 2)
Flyer_calculate_total_distribution_cost(d) ==
  PyRound(RMul(Flyer_calculate_num_flyers(d), Flyer_calculate_distribution_cost_per_flyer(d)), 2)
Flyer_calculate_campaign_cost(d) ==
  PyRound(RAdd(Flyer_calculate_total_print_cost(d), Flyer_calculate_total_distribution_cost(d)), 2)
Flyer_calculate_total_impressions(d) == Flyer_calculate_num_flyers(d)
Flyer_calculate_response_rate(d) == Get(d, "response_rate_percent", DEFAULT_RESPONSE_RATE)
Flyer_calculate_responses(d) ==
  PyInt(RMul(Flyer_calculate_num_flyers(d), Pct(Flyer_calculate_response_rate(d))))
Flyer_calculate_conversion_rate(d) ==
  Get(d, "conversion_rate_percent", Flyer_DEFAULT_CONVERSION_RATE)
Flyer_calculate_conversions(d) ==
  PyInt(RMul(Flyer_calculate_responses(d), Pct(Flyer_calculate_conversion_rate(d))))
Flyer_calculate_avg_revenue_per_conversion(d) == Get(d, "avg_revenue_per_conversion", Zero)
Flyer_calculate_total_sales(d) ==
  PyRound(RMul(Flyer_calculate_conversions(d), Flyer_calculate_avg_revenue_per_conversion(d)), 2)

Flyer_calculate_roi(d) ==
  LET total_sales == Flyer_calculate_total_sales(d)
      cost == Flyer_calculate_campaign_cost(d)
  IN IF cost = Zero THEN Zero
     ELSE PyRound(Times100(RDiv(RSub(total_sales, cost), cost)), 2)

Flyer_calculate_cost_per_impression(d) ==
  LET cost == Flyer_calculate_campaign_cost(d)
      impressions == Flyer_calculate_total_impressions(d)
  IN IF impressions = Zero THEN Zero ELSE PyRound(RDiv(cost, impressions), 4)

Flyer_calculate_cost_per_response(d) ==
  LET cost == Flyer_calculate_campaign_cost(d)
      responses == Flyer_calculate_responses(d)
  IN IF responses = Zero THEN Zero ELSE PyRound(RDiv(cost, responses), 2)

Flyer_calculate_cost_per_conversion(d) ==
  LET cost == Flyer_calculate_campaign_cost(d)
      conversions == Flyer_calculate_conversions(d)
  IN IF conversions = Zero THEN Zero ELSE PyRound(RDiv(cost, conversions), 2)

Flyer_calculate_roas(d) ==
  LET total_sales == Flyer_calculate_total_sales(d)
      cost == Flyer_calculate_campaign_cost(d)
  IN IF cost = Zero THEN Zero ELSE PyRound(RDiv(total_sales, cost), 2)

Flyer_get_full_report(d) ==
  [num_flyers |-> Flyer_calculate_num_flyers(d),
   print_cost_per_flyer |-> Flyer_calculate_print_cost_per_flyer(d),
   distribution_cost_per_flyer |-> Flyer_calculate_distribution_cost_per_flyer(d),
   total_print_cost |-> Flyer_calculate_total_print_cost(d),
   total_distribution_cost |-> Flyer_calculate_total_distribution_cost(d),
   campaign_cost |-> Flyer_calculate_campaign_cost(d),
   total_impressions |-> Flyer_calculate_total_impressions(d),
   response_rate_percent |-> Flyer_calculate_response_rate(d),
   total_responses |-> Flyer_calculate_responses(d),
   conversion_rate_percent |-> Flyer_calculate_conversion_rate(d),
   total_conversions |-> Flyer_calculate_conversions(d),
   avg_revenue_per_conversion |-> Flyer_calculate_avg_revenue_per_conversion(d),
   total_sales |-> Flyer_calculate_total_sales(d),
   roi_percent |-> Flyer_calculate_roi(d),
   cost_per_impression |-> Flyer_calculate_cost_per_impression(d),
   cost_per_response |-> Flyer_calculate_cost_per_response(d),
   cost_per_conversion |-> Flyer_calculate_cost_per_conversion(d),
   roas |-> Flyer_calculate_roas(d)]

FlyerNumberMethods ==
  {"calculate_num_flyers", "calculate_print_cost_per_flyer",
   "calculate_distribution_cost_per_flyer", "calculate_total_print_cost",
   "calculate_total_distribution_cost", "calculate_campaign_cost",
   "calculate_total_impressions", "calculate_response_rate", "calculate_responses",
   "calculate_conversion_rate", "calculate_conversions",
   "calculate_avg_revenue_per_conversion", "calculate_total_sales", "calculate_roi",
   "calculate_cost_per_impression", "calculate_cost_per_response",
   "calculate_cost_per_conversion", "calculate_roas"}

FlyerNumber(m, d) ==
  CASE m = "calculate_num_flyers" -> Flyer_calculate_num_flyers(d)
    [] m = "calculate_print_cost_per_flyer" -> Flyer_calculate_print_cost_per_flyer(d)
    [] m = "calculate_distribution_cost_per_flyer" ->
         Flyer_calculate_distribution_cost_per_flyer(d)
    [] m = "calculate_total_print_cost" -> Flyer_calculate_total_print_cost(d)
    [] m = "calculate_total_distribution_cost" -> Flyer_calculate_total_distribution_cost(d)
    [] m = "calculate_campaign_cost" -> Flyer_calculate_campaign_cost(d)
    [] m = "calculate_total_impressions" -> Flyer_calculate_total_impressions(d)
    [] m = "calculate_response_rate" -> Flyer_calculate_response_rate(d)
    [] m = "calculate_responses" -> Flyer_calculate_responses(d)
    [] m = "calculate_conversion_rate" -> Flyer_calculate_conversion_rate(d)
    [] m = "calculate_conversions" -> Flyer_calculate_conversions(d)
    [] m = "calculate_avg_revenue_per_conversion" ->
         Flyer_calculate_avg_revenue_per_conversion(d)
    [] m = "calculate_total_sales" -> Flyer_calculate_total_sales(d)
    [] m = "calculate_roi" -> Flyer_calculate_roi(d)
    [] m = "calculate_cost_per_impression" -> Flyer_calculate_cost_per_impression(d)
    [] m = "calculate_cost_per_response" -> Flyer_calculate_cost_per_response(d)
    [] m = "calculate_cost_per_conversion" -> Flyer_calculate_cost_per_conversion(d)
    [] m = "calculate_roas" -> Flyer_calculate_roas(d)

---------------------------------------------------------------------------
(* DigitalAdsROICalculator *)

DEFAULT_CPM == Rat(10, 1)
DEFAULT_CTR == Rat(1, 1)
Digital_DEFAULT_CONVERSION_RATE == Rat(25, 10)

Digital_calculate_campaign_cost(d) == Get(d, "ad_budget", Zero)
Digital_calculate_cpm(d) == Get(d, "cpm", DEFAULT_CPM)

\* a faulty variant: the division without the test for a zero CPM
Digital_impressions_unguarded(d) ==
  PyInt(RMul(RDiv(Digital_calculate_campaign_cost(d), Digital_calculate_cpm(d)),
             Rat(1000, 1)))

Digital_calculate_total_impressions(d) ==
  LET budget == Digital_calculate_campaign_cost(d)
      cpm == Digital_calculate_cpm(d)
  IN IF cpm = Zero THEN Zero
     ELSE PyInt(RMul(RDiv(budget, cpm), Rat(1000, 1)))

Digital_calculate_ctr(d) == Get(d, "ctr_percent", DEFAULT_CTR)
Digital_calculate_total_clicks(d) ==
  PyInt(RMul(Digital_calculate_total_impressions(d), Pct(Digital_calculate_ctr(d))))
Digital_calculate_conversion_rate(d) ==
  Get(d, "conversion_rate_percent", Digital_DEFAULT_CONVERSION_RATE)
Digital_calculate_conversions(d) ==
  PyInt(RMul(Digital_calculate_total_clicks(d), Pct(Digital_calculate_conversion_rate(d))))
Digital_calculate_avg_revenue_per_conversion(d) == Get(d, "avg_revenue_per_conversion", Zero)
Digital_calculate_total_sales(d) ==
  PyRound(RMul(Digital_calculate_conversions(d),
               Digital_calculate_avg_revenue_per_conversion(d)), 2)

Digital_calculate_roi(d) ==
  LET total_sales == Digital_calculate_total_sales(d)
      cost == Digital_calculate_campaign_cost(d)
  IN IF cost = Zero THEN Zero
     ELSE PyRound(Times100(RDiv(RSub(total_sales, cost), cost)), 2)

Digital_calculate_cost_per_click(d) ==
  LET cost == Digital_calculate_campaign_cost(d)
      clicks == Digital_calculate_total_clicks(d)
  IN IF clicks = Zero THEN Zero ELSE PyRound(RDiv(cost, clicks), 2)

Digital_calculate_cost_per_conversion(d) ==
  LET cost == Digital_calculate_campaign_cost(d)
      conversions == Digital_calculate_conversions(d)
  IN IF conversions = Zero THEN Zero ELSE PyRound(RDiv(cost, conversions), 2)

Digital_calculate_roas(d) ==
  LET total_sales == Digital_calculate_total_sales(d)
      cost == Digital_calculate_campaign_cost(d)
  IN IF cost = Zero THEN Zero ELSE PyRound(RDiv(total_sales, cost), 2)

Digital_get_full_report(d) ==
  [campaign_cost |-> Digital_calculate_campaign_cost(d),
   cpm |-> Digital_calculate_cpm(d),
   ctr_percent |-> Digital_calculate_ctr(d),
   conversion_rate_percent |-> Digital_calculate_conversion_rate(d),
   total_impressions |-> Digital_calculate_total_impressions(d),
   total_clicks |-> Digital_calculate_total_clicks(d),
   total_conversions |-> Digital_calculate_conversions(d),
   avg_revenue_per_conversion |-> Digital_calculate_avg_revenue_per_conversion(d),
   total_sales |-> Digital_calculate_total_sales(d),
   roi_percent |-> Digital_calculate_roi(d),
   cost_per_click |-> Digital_calculate_cost_per_click(d),
   cost_per_conversion |-> Digital_calculate_cost_per_conversion(d),
   roas |-> Digital_calculate_roas(d)]

DigitalNumberMethods ==
  {"calculate_campaign_cost", "calculate_cpm", "calculate_total_impressions",
   "calculate_ctr", "calculate_total_clicks", "calculate_conversion_rate",
   "calculate_conversions", "calculate_avg_revenue_per_conversion",
   "calculate_total_sales", "calculate_roi", "calculate_cost_per_click",
   "calculate_cost_per_conversion", "calculate_roas"}

DigitalNumber(m, d) ==
  CASE m = "calculate_campaign_cost" -> Digital_calculate_campaign_cost(d)
    [] m = "calculate_cpm" -> Digital_calculate_cpm(d)
    [] m = "calculate_total_impressions" -> Digital_calculate_total_impressions(d)
    [] m = "calculate_ctr" -> Digital_calculate_ctr(d)
    [] m = "calculate_total_clicks" -> Digital_calculate_total_clicks(d)
    [] m = "calculate_conversion_rate" -> Digital_calculate_conversion_rate(d)
    [] m = "calculate_conversions" -> Digital_calculate_conversions(d)
    [] m = "calculate_avg_revenue_per_conversion" ->
         Digital_calculate_avg_revenue_per_conversion(d)
    [] m = "calculate_total_sales" -> Digital_calculate_total_sales(d)
    [] m = "calculate_roi" -> Digital_calculate_roi(d)
    [] m = "calculate_cost_per_click" -> Digital_calculate_cost_per_click(d)
    [] m = "calculate_cost_per_conversion" -> Digital_calculate_cost_per_conversion(d)
    [] m = "calculate_roas" -> Digital_calculate_roas(d)


---------------------------------------------------------------------------
(* InvestorROICalculator *)

RECURSIVE ISqrtBetween(_, _, _)
ISqrtBetween(x, lo, hi) ==
  IF lo = hi THEN lo
  ELSE LET mid == (lo + hi + 1) \div 2
       IN IF mid * mid <= x THEN ISqrtBetween(x, mid, hi)
          ELSE ISqrtBetween(x, lo, mid - 1)

\* base ** (1 / years) for years 1 and 2; the float square root is taken to
\* four decimals, and the root of a negative base is a complex number,
\* which round() rejects
RootOf(base, years) ==
  IF IsErr(base) THEN Err
  ELSE IF years = Rat(1, 1) THEN base
  ELSE IF base[1] < 0 THEN Err
  ELSE Rat(ISqrtBetween((base[1] * 100000000) \div base[2], 0, 46340), 10000)

Investor_calculate_roi(d) ==
  LET initial_investment == Get(d, "initial_investment", Zero)
      current_value == Get(d, "current_value", Zero)
  IN IF initial_investment = Zero THEN Zero
     ELSE PyRound(Times100(RDiv(RSub(current_value, initial_investment),
                                initial_investment)), 2)

Investor_calculate_annualized_return(d) ==
  LET initial_investment == Get(d, "initial_investment", Zero)
      current_value == Get(d, "current_value", Zero)
      years == Get(d, "investment_period_years", Rat(1, 1))
  IN IF initial_investment = Zero \/ years = Zero THEN Zero
     ELSE PyRound(Times100(RSub(RootOf(RDiv(current_value, initial_investment), years),
                                Rat(1, 1))), 2)

Investor_calculate_irr(cash_flows) ==
  IF Len(cash_flows) < 2 THEN Zero ELSE PyRound(Rat(10, 1), 2)

Investor_calculate_multiple_on_invested_capital(d) ==
  LET initial_investment == Get(d, "initial_investment", Zero)
      current_value == Get(d, "current_value", Zero)
  IN IF initial_investment = Zero THEN Zero
     ELSE PyRound(RDiv(current_value, initial_investment), 2)

Investor_calculate_profit_margin(d) ==
  LET initial_investment == Get(d, "initial_investment", Zero)
      current_value == Get(d, "current_value", Zero)
  IN IF current_value = Zero THEN Zero
     ELSE PyRound(Times100(RDiv(RSub(current_value, initial_investment),
                                current_value)), 2)

Investor_get_full_report(d) ==
  [roi_percentage |-> Investor_calculate_roi(d),
   annualized_return |-> Investor_calculate_annualized_return(d),
   moic |-> Investor_calculate_multiple_on_invested_capital(d),
   profit_margin |-> Investor_calculate_profit_margin(d),
   initial_investment |-> Get(d, "initial_investment", Zero),
   current_value |-> Get(d, "current_value", Zero),
   unrealized_gain |-> RSub(Get(d, "current_value", Zero),
                            Get(d, "initial_investment", Zero))]

InvestorNumberMethods ==
  {"calculate_roi", "calculate_annualized_return",
   "calculate_multiple_on_invested_capital", "calculate_profit_margin"}

InvestorNumber(m, d) ==
  CASE m = "calculate_roi" -> Investor_calculate_roi(d)
    [] m = "calculate_annualized_return" -> Investor_calculate_annualized_return(d)
    [] m = "calculate_multiple_on_invested_capital" ->
         Investor_calculate_multiple_on_invested_capital(d)
    [] m = "calculate_profit_margin" -> Investor_calculate_profit_margin(d)

---------------------------------------------------------------------------
(* CommerceRewardCalculator *)

get_default_assumptions ==
  [bag_retail_price |-> Rat(40, 100),
   bags_sold_per_month |-> Rat(10000, 1),
   bag_sales_growth_quarterly |-> Rat(15, 1),
   initial_brands_enrolled |-> Rat(10, 1),
   brand_growth_rate_quarterly |-> Rat(25, 1),
   cpv_brand_pays |-> Rat(20, 100),
   cash_credit_per_view |-> Rat(6, 100),
   reward_points_per_view |-> Rat(6, 100),
   kshipra_margin_per_view |-> Rat(8, 100),
   active_user_rate |-> Rat(60, 1),
   avg_ads_to_recover_bag |-> Rat(3, 1),
   avg_monthly_ad_views |-> Rat(12, 1),
   bronze_cash_limit_bags |-> Rat(1, 1),
   silver_cash_limit_bags |-> Rat(3, 1),
   gold_cash_limit_bags |-> Rat(7, 1),
   platinum_daily_cap |-> Rat(1, 1),
   pct_bronze |-> Rat(60, 1),
   pct_silver |-> Rat(25, 1),
   pct_gold |-> Rat(12, 1),
   pct_platinum |-> Rat(3, 1),
   reward_redemption_rate |-> Rat(75, 1),
   repeat_visit_increase |-> Rat(15, 1),
   basket_size_uplift |-> Rat(8, 1),
   avg_basket_value |-> Rat(25, 1),
   meta_cpm |-> Rat(10, 1),
   tiktok_cpm |-> Rat(85, 10),
   industry_avg_ctr |-> Rat(1, 1)]

\* __init__: a missing or empty argument means the defaults
NoAssumptions == [k \in {} |-> Zero]
CommerceRewardCalculator(arg) ==
  IF DOMAIN arg = {} THEN get_default_assumptions ELSE arg

calculate_revenue_per_user(a) ==
  LET monthly_views == a.avg_monthly_ad_views
      brand_spend == RMul(monthly_views, a.cpv_brand_pays)
      cash_credit_given == RMul(monthly_views, a.cash_credit_per_view)
      reward_points_given == RMul(monthly_views, a.reward_points_per_view)
      total_user_rewards == RAdd(cash_credit_given, reward_points_given)
      kshipra_margin == RMul(monthly_views, a.kshipra_margin_per_view)
      total_per_view == RAdd(RAdd(a.cash_credit_per_view, a.reward_points_per_view),
                             a.kshipra_margin_per_view)
      gap == RSub(total_per_view, a.cpv_brand_pays)
  IN [monthly_ad_views |-> monthly_views,
      brand_spend_per_user |-> brand_spend,
      cash_credit_given |-> cash_credit_given,
      reward_points_given |-> reward_points_given,
      total_user_rewards |-> total_user_rewards,
      kshipra_margin_per_user |-> kshipra_margin,
      economics_balanced |-> RLess(<<Abs(gap[1]), gap[2]>>, Rat(1, 100)),
      margin_percentage |-> IF Positive(brand_spend)
                            THEN Times100(RDiv(kshipra_margin, brand_spend)) ELSE Zero]

calculate_revenue_per_bag(a) ==
  LET avg_views_per_bag == a.avg_ads_to_recover_bag
      brand_revenue_per_bag == RMul(avg_views_per_bag, a.cpv_brand_pays)
      kshipra_margin_per_bag == RMul(avg_views_per_bag, a.kshipra_margin_per_view)
      user_earnings_per_bag ==
        RMul(avg_views_per_bag, RAdd(a.cash_credit_per_view, a.reward_points_per_view))
      bag_retail_revenue == a.bag_retail_price
  IN [avg_ad_views_per_bag |-> avg_views_per_bag,
      bag_retail_revenue |-> bag_retail_revenue,
      brand_revenue_per_bag |-> brand_revenue_per_bag,
      total_revenue_per_bag |-> RAdd(bag_retail_revenue, brand_revenue_per_bag),
      kshipra_margin_per_bag |-> kshipra_margin_per_bag,
      net_margin_per_bag |-> RAdd(bag_retail_revenue, kshipra_margin_per_bag),
      user_earnings_per_bag |-> user_earnings_per_bag,
      user_net_cost |-> RSub(bag_retail_revenue, user_earnings_per_bag)]

Tier(a, monthly_cash_limit, user_percentage) ==
  [monthly_cash_limit |-> monthly_cash_limit,
   user_percentage |-> user_percentage,
   max_monthly_views |-> IF Positive(a.cash_credit_per_view)
                         THEN PyInt(RDiv(monthly_cash_limit, a.cash_credit_per_view))
                         ELSE Zero]

calculate_tier_economics(a) ==
  LET tiers ==
        [Bronze |-> Tier(a, RMul(a.bronze_cash_limit_bags, a.bag_retail_price), a.pct_bronze),
         Silver |-> Tier(a, RMul(a.silver_cash_limit_bags, a.bag_retail_price), a.pct_silver),
         Gold |-> Tier(a, RMul(a.gold_cash_limit_bags, a.bag_retail_price), a.pct_gold),
         Platinum |-> Tier(a, RMul(a.platinum_daily_cap, Rat(30, 1)), a.pct_platinum)]
      share(t) == Pct(RMul(t.monthly_cash_limit, t.user_percentage))
  IN [tiers |-> tiers,
      weighted_avg_cash_limit |->
        RAdd(RAdd(RAdd(share(tiers.Bronze), share(tiers.Silver)), share(tiers.Gold)),
             share(tiers.Platinum)),
      total_percentage |->
        RAdd(RAdd(RAdd(a.pct_bronze, a.pct_silver), a.pct_gold), a.pct_platinum)]

calculate_store_value(a) ==
  LET total_bags_sold == a.bags_sold_per_month
      active_users == RMul(total_bags_sold, Pct(a.active_user_rate))
      per_user == calculate_revenue_per_user(a)
      total_rewards_generated == RMul(active_users, per_user.total_user_rewards)
      reward_redemption_value ==
        RMul(total_rewards_generated, Pct(a.reward_redemption_rate))
      estimated_transactions == RMul(active_users, Pct(a.reward_redemption_rate))
      repeat_visits_increase == RMul(estimated_transactions, Pct(a.repeat_visit_increase))
      baseline_basket_value == RMul(estimated_transactions, a.avg_basket_value)
      uplifted_basket_value ==
        RMul(baseline_basket_value, RAdd(Rat(1, 1), Pct(a.basket_size_uplift)))
      incremental_basket_value == RSub(uplifted_basket_value, baseline_basket_value)
  IN [total_rewards_generated |-> total_rewards_generated,
      reward_redemption_value |-> reward_redemption_value,
      estimated_transactions |-> estimated_transactions,
      repeat_visits_increase |-> repeat_visits_increase,
      baseline_basket_value |-> baseline_basket_value,
      uplifted_basket_value |-> uplifted_basket_value,
      incremental_basket_value |-> incremental_basket_value,
      total_monthly_store_value |-> RAdd(reward_redemption_value, incremental_basket_value)]

\* lines 225-232: cost per engagement on a platform billed per thousand
\* impressions
effective_cost(a, cpm) ==
  IF Positive(a.industry_avg_ctr)
  THEN RDiv(RDiv(cpm, Rat(1000, 1)), Pct(a.industry_avg_ctr)) ELSE Zero

savings_pct(effective, cost_per_engaged_customer) ==
  IF Positive(effective)
  THEN Times100(RDiv(RSub(effective, cost_per_engaged_customer), effective))
  ELSE Zero

\* lines 234-262, given store_metrics['estimated_transactions'] and the two
\* effective costs
BrandRoi(a, meta_effective_cost, tiktok_effective_cost, total_influenced_transactions, total_brand_spend) ==
  [cost_per_engaged_customer |-> a.cpv_brand_pays,
   bagbuddy_cpm |-> RMul(a.cpv_brand_pays, Rat(1000, 1)),
   meta_cpm |-> a.meta_cpm,
   tiktok_cpm |-> a.tiktok_cpm,
   meta_effective_cost_per_engagement |-> meta_effective_cost,
   tiktok_effective_cost_per_engagement |-> tiktok_effective_cost,
   cost_per_basket_influenced |->
     IF Positive(total_influenced_transactions)
     THEN RDiv(total_brand_spend, total_influenced_transactions) ELSE Zero,
   bagbuddy_savings_vs_meta_pct |-> savings_pct(meta_effective_cost, a.cpv_brand_pays),
   bagbuddy_savings_vs_tiktok_pct |-> savings_pct(tiktok_effective_cost, a.cpv_brand_pays),
   total_monthly_brand_spend |-> total_brand_spend]

calculate_brand_roi(a) ==
  BrandRoi(a, effective_cost(a, a.meta_cpm), effective_cost(a, a.tiktok_cpm),
           calculate_store_value(a).estimated_transactions,
           RMul(RMul(RMul(a.bags_sold_per_month, Pct(a.active_user_rate)),
                     a.avg_monthly_ad_views),
                a.cpv_brand_pays))

calculate_monthly_summary(a) ==
  LET bags_sold == a.bags_sold_per_month
      bag_revenue == RMul(bags_sold, a.bag_retail_price)
      active_users == RMul(bags_sold, Pct(a.active_user_rate))
      total_ad_views == RMul(active_users, a.avg_monthly_ad_views)
      ad_revenue == RMul(total_ad_views, a.cpv_brand_pays)
      total_revenue == RAdd(bag_revenue, ad_revenue)
      total_cash_credits == RMul(total_ad_views, a.cash_credit_per_view)
      total_reward_points == RMul(total_ad_views, a.reward_points_per_view)
      gross_margin == RMul(total_ad_views, a.kshipra_margin_per_view)
      total_margin == RAdd(bag_revenue, gross_margin)
  IN [bags_sold |-> bags_sold,
      bag_revenue |-> bag_revenue,
      total_ad_views |-> total_ad_views,
      ad_revenue |-> ad_revenue,
      total_revenue |-> total_revenue,
      total_cash_credits_paid |-> total_cash_credits,
      total_reward_points_issued |-> total_reward_points,
      total_user_rewards |-> RAdd(total_cash_credits, total_reward_points),
      gross_margin |-> gross_margin,
      total_margin |-> total_margin,
      margin_percentage |-> IF Positive(total_revenue)
                            THEN Times100(RDiv(total_margin, total_revenue)) ELSE Zero,
      avg_revenue_per_bag |-> IF Positive(bags_sold)
                              THEN RDiv(total_revenue, bags_sold) ELSE Zero,
      avg_margin_per_bag |-> IF Positive(bags_sold)
                             THEN RDiv(total_margin, bags_sold) ELSE Zero]

\* the assumptions of the calculator generate_scenario returns
generate_scenario(scenario_type) ==
  LET base_assumptions == get_default_assumptions
  IN IF scenario_type = "best"
     THEN [base_assumptions EXCEPT !.avg_monthly_ad_views = Rat(20, 1),
                                   !.pct_platinum = Rat(8, 1),
                                   !.pct_gold = Rat(20, 1),
                                   !.reward_redemption_rate = Rat(85, 1),
                                   !.repeat_visit_increase = Rat(25, 1),
                                   !.basket_size_uplift = Rat(15, 1)]
     ELSE IF scenario_type = "worst"
     THEN [base_assumptions EXCEPT !.avg_monthly_ad_views = Rat(6, 1),
                                   !.pct_platinum = Rat(1, 1),
                                   !.pct_gold = Rat(5, 1),
                                   !.reward_redemption_rate = Rat(50, 1),
                                   !.repeat_visit_increase = Rat(8, 1),
                                   !.basket_size_uplift = Rat(3, 1)]
     ELSE base_assumptions

\* line 373 as written: the division has no test of its divisor
contribution_margin_pct(a, contribution_margin_per_user, per_user) ==
  Times100(RDiv(contribution_margin_per_user,
                RAdd(a.bag_retail_price, per_user.brand_spend_per_user)))

calculate_investor_metrics(a) ==
  LET marketing_cost_per_user == Rat(2, 1)
      avg_user_lifetime_months == Rat(12, 1)
      per_user == calculate_revenue_per_user(a)
      per_bag == calculate_revenue_per_bag(a)
      bag_ltv == RMul(avg_user_lifetime_months, per_bag.net_margin_per_bag)
      total_ad_views_lifetime == RMul(avg_user_lifetime_months, a.avg_monthly_ad_views)
      ad_ltv == RMul(total_ad_views_lifetime, a.kshipra_margin_per_view)
      total_ltv == RAdd(bag_ltv, ad_ltv)
      monthly_margin_per_user ==
        RAdd(per_user.kshipra_margin_per_user, RMul(a.bag_retail_price, Rat(1, 1)))
      pct == contribution_margin_pct(a, monthly_margin_per_user, per_user)
  IN IF IsErr(pct) THEN Raise
     ELSE Return(
       [cac |-> marketing_cost_per_user,
        ltv |-> total_ltv,
        ltv_cac_ratio |-> IF Positive(marketing_cost_per_user)
                          THEN RDiv(total_ltv, marketing_cost_per_user) ELSE Zero,
        payback_months |-> IF Positive(monthly_margin_per_user)
                           THEN RDiv(marketing_cost_per_user, monthly_margin_per_user)
                           ELSE Zero,
        avg_user_lifetime_months |-> avg_user_lifetime_months,
        contribution_margin_per_user |-> monthly_margin_per_user,
        contribution_margin_pct |-> pct])


base_fill_rate == Rat(85, 100)

\* line 418 as written: the division by the initial number of brands has no
\* test of its divisor
calculate_fill_rate(num_brands, initial_brands) ==
  LET improvement == RMul(RSub(RDiv(num_brands, initial_brands), Rat(1, 1)), Rat(8, 100))
  IN IF IsErr(improvement) THEN Err
     ELSE RMin(Rat(95, 100), RAdd(base_fill_rate, improvement))

\* a faulty variant: the quarter's growth alone, without the previous level
grow_by_rate_only(previous, growth_rate) == RMul(previous, growth_rate)

\* lines 396-398 and 404-406: previous * (1 + growth_rate)
grow(previous, growth_rate) == RMul(previous, RAdd(Rat(1, 1), growth_rate))

\* lines 395-398 and 403-406: the level of each quarter, q1 to q4
QuarterLevels(initial, growth_rate) ==
  <<initial,
    grow(initial, growth_rate),
    grow(grow(initial, growth_rate), growth_rate),
    grow(grow(grow(initial, growth_rate), growth_rate), growth_rate)>>

\* lines 434-438 and 447-450: the revenue of one quarter (three months)
bag_revenue(a, bags) == RMul(RMul(bags, a.bag_retail_price), Rat(3, 1))
ad_revenue(a, bags, fill_rate) ==
  RMul(RMul(RMul(RMul(RMul(bags, Pct(a.active_user_rate)), a.avg_monthly_ad_views),
                 a.cpv_brand_pays),
            RDiv(fill_rate, base_fill_rate)),
       Rat(3, 1))

SumOfQuarters(q) == RAdd(RAdd(RAdd(q[1], q[2]), q[3]), q[4])

lift_pct(lift, base) == IF Positive(base) THEN Times100(RDiv(lift, base)) ELSE Zero

\* lines 489-534: the dictionary returned
GrowthMetrics(a, bags, brands, fill_rate, bag_revenue_q, ad_revenue_q, total_annual_bag_revenue, total_annual_ad_revenue, base_annual_bag_revenue, base_annual_ad_revenue) ==
  [initial_bags |-> bags[1],
   bag_growth_rate_quarterly |-> a.bag_sales_growth_quarterly,
   bags_q1 |-> bags[1], bags_q2 |-> bags[2], bags_q3 |-> bags[3], bags_q4 |-> bags[4],
   avg_bags_year1 |->
     RDiv(RAdd(RAdd(RAdd(RMul(bags[1], Rat(3, 1)), RMul(bags[2], Rat(3, 1))),
                    RMul(bags[3], Rat(3, 1))), RMul(bags[4], Rat(3, 1))), Rat(12, 1)),
   bag_revenue_q1 |-> bag_revenue_q[1], bag_revenue_q2 |-> bag_revenue_q[2],
   bag_revenue_q3 |-> bag_revenue_q[3], bag_revenue_q4 |-> bag_revenue_q[4],
   initial_brands |-> brands[1],
   brand_growth_rate_quarterly |-> a.brand_growth_rate_quarterly,
   brands_q1 |-> brands[1], brands_q2 |-> brands[2],
   brands_q3 |-> brands[3], brands_q4 |-> brands[4],
   avg_brands_year1 |-> RDiv(SumOfQuarters(brands), Rat(4, 1)),
   base_fill_rate |-> Times100(base_fill_rate),
   year_end_fill_rate |-> Times100(fill_rate[4]),
   avg_fill_rate |-> Times100(RDiv(SumOfQuarters(fill_rate), Rat(4, 1))),
   ad_revenue_q1 |-> ad_revenue_q[1], ad_revenue_q2 |-> ad_revenue_q[2],
   ad_revenue_q3 |-> ad_revenue_q[3], ad_revenue_q4 |-> ad_revenue_q[4],
   total_revenue_q1 |-> RAdd(bag_revenue_q[1], ad_revenue_q[1]),
   total_revenue_q2 |-> RAdd(bag_revenue_q[2], ad_revenue_q[2]),
   total_revenue_q3 |-> RAdd(bag_revenue_q[3], ad_revenue_q[3]),
   total_revenue_q4 |-> RAdd(bag_revenue_q[4], ad_revenue_q[4]),
   base_annual_bag_revenue |-> base_annual_bag_revenue,
   total_annual_bag_revenue |-> total_annual_bag_revenue,
   bag_revenue_lift |-> RSub(total_annual_bag_revenue, base_annual_bag_revenue),
   bag_revenue_lift_pct |->
     lift_pct(RSub(total_annual_bag_revenue, base_annual_bag_revenue),
              base_annual_bag_revenue),
   base_annual_ad_revenue |-> base_annual_ad_revenue,
   total_annual_ad_revenue |-> total_annual_ad_revenue,
   ad_revenue_lift |-> RSub(total_annual_ad_revenue, base_annual_ad_revenue),
   ad_revenue_lift_pct |->
     lift_pct(RSub(total_annual_ad_revenue, base_annual_ad_revenue),
              base_annual_ad_revenue),
   base_annual_revenue |-> RAdd(base_annual_bag_revenue, base_annual_ad_revenue),
   total_annual_revenue |-> RAdd(total_annual_bag_revenue, total_annual_ad_revenue),
   total_revenue_lift |->
     RSub(RAdd(total_annual_bag_revenue, total_annual_ad_revenue),
          RAdd(base_annual_bag_revenue, base_annual_ad_revenue)),
   total_revenue_lift_pct |->
     lift_pct(RSub(RAdd(total_annual_bag_revenue, total_annual_ad_revenue),
                   RAdd(base_annual_bag_revenue, base_annual_ad_revenue)),
              RAdd(base_annual_bag_revenue, base_annual_ad_revenue))]

\* lines 452-487: the year's totals and the totals of twelve base months
GrowthFromRevenues(a, bags, brands, fill_rate, bag_revenue_q, ad_revenue_q) ==
  GrowthMetrics(a, bags, brands, fill_rate, bag_revenue_q, ad_revenue_q,
                SumOfQuarters(bag_revenue_q), SumOfQuarters(ad_revenue_q),
                RMul(RMul(bags[1], a.bag_retail_price), Rat(12, 1)),
                RMul(calculate_monthly_summary(a).ad_revenue, Rat(12, 1)))

\* lines 434-450: the revenues of the four quarters
GrowthFromFillRates(a, bags, brands, fill_rate) ==
  GrowthFromRevenues(a, bags, brands, fill_rate,
                     [i \in 1..4 |-> bag_revenue(a, bags[i])],
                     [i \in 1..4 |-> ad_revenue(a, bags[i], fill_rate[i])])

\* lines 421-424: the fill rate of each quarter; the first division by the
\* initial number of brands raises when that number is zero
GrowthFromLevels(a, bags, brands) ==
  IF IsErr(calculate_fill_rate(brands[1], brands[1])) THEN Raise
  ELSE Return(GrowthFromFillRates(a, bags, brands,
                                  [i \in 1..4 |-> calculate_fill_rate(brands[i], brands[1])]))

calculate_business_growth_metrics(a) ==
  GrowthFromLevels(a,
                   QuarterLevels(a.bags_sold_per_month, Pct(a.bag_sales_growth_quarterly)),
                   QuarterLevels(a.initial_brands_enrolled,
                                 Pct(a.brand_growth_rate_quarterly)))

\* one row of calculate_sensitivity_analysis, computed with the assumption
\* already updated
SensitivityEntry(value, summary, per_user) ==
  [value |-> value,
   total_revenue |-> summary.total_revenue,
   total_margin |-> summary.total_margin,
   margin_pct |-> summary.margin_percentage,
   user_rewards |-> per_user.total_user_rewards]

SensitivityRow(a, value) ==
  SensitivityEntry(value, calculate_monthly_summary(a), calculate_revenue_per_user(a))

\* self.assumptions[key] = value
Store(a, key, value) == (key :> value) @@ a

\* a faulty variant: every row is computed before the value is stored
RowsOnOriginalAssumptions(a, variable, values) ==
  [i \in 1..Len(values) |-> SensitivityRow(a, values[i])]

\* the loop: each value is stored into self.assumptions before its row
\* is computed
SensitivityRows(a, variable, values) ==
  [i \in 1..Len(values) |-> SensitivityRow(Store(a, variable, values[i]), values[i])]

\* line 589: original_value = self.assumptions[variable] raises KeyError for
\* a name that is no key, before the loop is entered
calculate_sensitivity_analysis(a, variable, values) ==
  IF variable \notin DOMAIN a THEN Raise ELSE Return(SensitivityRows(a, variable, values))

\* self.assumptions when the loop has ended
AssumptionsAfterLoop(a, variable, values) ==
  IF Len(values) = 0 THEN a ELSE Store(a, variable, values[Len(values)])

\* a faulty variant: the value of the default assumptions is stored back
RestoreDefault(a, variable, original_value) ==
  Store(a, variable, get_default_assumptions[variable])

\* line 608: self.assumptions[variable] = original_value
Restore(a, variable, original_value) == Store(a, variable, original_value)

\* a faulty variant: the original value is not stored back
SensitivityWithoutRestore(a, variable, values) ==
  AssumptionsAfterLoop(a, variable, values)

\* self.assumptions when calculate_sensitivity_analysis returns or raises
AssumptionsAfterSensitivity(a, variable, values) ==
  IF variable \notin DOMAIN a THEN a
  ELSE Restore(AssumptionsAfterLoop(a, variable, values), variable, a[variable])

---------------------------------------------------------------------------
(* CampaignComparison *)

calculate_metrics(campaign) ==
  LET investment == campaign.total_investment
      revenue == campaign.total_revenue
      customers == campaign.new_customers
      impressions == campaign.impressions
      engagements == campaign.engagements
      clicks == campaign.clicks
      conversions == campaign.conversions
  IN [roi |-> IF Positive(investment)
              THEN Times100(RDiv(RSub(revenue, investment), investment)) ELSE Zero,
      profit |-> RSub(revenue, investment),
      cac |-> IF Positive(customers) THEN RDiv(investment, customers) ELSE Zero,
      engagement_rate |-> IF Positive(impressions)
                          THEN Times100(RDiv(engagements, impressions)) ELSE Zero,
      ctr |-> IF Positive(impressions) THEN Times100(RDiv(clicks, impressions)) ELSE Zero,
      cvr |-> IF Positive(clicks) THEN Times100(RDiv(conversions, clicks)) ELSE Zero,
      cpc |-> IF Positive(clicks) THEN RDiv(investment, clicks) ELSE Zero,
      cpa |-> IF Positive(conversions) THEN RDiv(investment, conversions) ELSE Zero,
      revenue_per_customer |-> IF Positive(customers) THEN RDiv(revenue, customers) ELSE Zero,
      roas |-> IF Positive(investment) THEN RDiv(revenue, investment) ELSE Zero]

Metrics == {"roi", "profit", "cac", "engagement_rate", "ctr", "cvr", "cpc", "cpa",
            "revenue_per_customer", "roas"}

compare_all(cs) ==
  [i \in 1..Len(cs) |->
     LET metrics == calculate_metrics(cs[i])
     IN [k \in {"campaign_name", "campaign_id"} \cup Metrics |->
           IF k \in Metrics THEN metrics[k] ELSE cs[i][k]]]

RECURSIVE SumOf(_, _, _)
SumOf(s, key, n) == IF n = 0 THEN Zero ELSE RAdd(SumOf(s, key, n - 1), s[n][key])

\* max(comparisons, key=...) and min(...): the first of the best
MaxBy(s, key) ==
  s[CHOOSE i \in 1..Len(s) :
      /\ \A j \in 1..Len(s) : ~RLess(s[i][key], s[j][key])
      /\ \A j \in 1..(i - 1) : RLess(s[j][key], s[i][key])]
MinBy(s, key) ==
  s[CHOOSE i \in 1..Len(s) :
      /\ \A j \in 1..Len(s) : ~RLess(s[j][key], s[i][key])
      /\ \A j \in 1..(i - 1) : RLess(s[i][key], s[j][key])]

BestOf(comparisons) ==
  [highest_roi |-> MaxBy(comparisons, "roi"),
   highest_profit |-> MaxBy(comparisons, "profit"),
   lowest_cac |-> MinBy(comparisons, "cac"),
   highest_engagement |-> MaxBy(comparisons, "engagement_rate"),
   highest_ctr |-> MaxBy(comparisons, "ctr"),
   highest_cvr |-> MaxBy(comparisons, "cvr"),
   highest_roas |-> MaxBy(comparisons, "roas")]

\* comparisons = self.compare_all(), and the best of each metric
find_best_performers(cs) == BestOf(compare_all(cs))

WorstOf(comparisons) ==
  [lowest_roi |-> MinBy(comparisons, "roi"),
   lowest_profit |-> MinBy(comparisons, "profit"),
   highest_cac |-> MaxBy(comparisons, "cac"),
   lowest_engagement |-> MinBy(comparisons, "engagement_rate"),
   lowest_ctr |-> MinBy(comparisons, "ctr"),
   lowest_cvr |-> MinBy(comparisons, "cvr"),
   lowest_roas |-> MinBy(comparisons, "roas")]

find_worst_performers(cs) == WorstOf(compare_all(cs))

AveragesOf(comparisons) ==
  LET n == Len(comparisons)
      avg(key) == RDiv(SumOf(comparisons, key, n), Rat(n, 1))
  IN [avg_roi |-> avg("roi"),
      avg_profit |-> avg("profit"),
      avg_cac |-> avg("cac"),
      avg_engagement_rate |-> avg("engagement_rate"),
      avg_ctr |-> avg("ctr"),
      avg_cvr |-> avg("cvr"),
      avg_roas |-> avg("roas")]

calculate_averages(cs) == AveragesOf(compare_all(cs))

\* line 212 as written: the summary's ratio has no test of its divisor
overall_roi(total_profit, total_investment) ==
  Times100(RDiv(total_profit, total_investment))

\* the numbers and names the report text is built from
generate_comparison_report(cs) ==
  LET total_investment == SumOf(cs, "total_investment", Len(cs))
      total_revenue == SumOf(cs, "total_revenue", Len(cs))
      total_profit == RSub(total_revenue, total_investment)
      total_customers == SumOf(cs, "new_customers", Len(cs))
      roi == overall_roi(total_profit, total_investment)
  IN IF Len(cs) = 0 THEN Return("No campaigns to compare")
     ELSE IF IsErr(roi) THEN Raise
     ELSE Return(
       [total_campaigns |-> Len(cs),
        total_investment |-> total_investment,
        total_revenue |-> total_revenue,
        total_profit |-> total_profit,
        total_customers |-> total_customers,
        overall_roi |-> PyRound(roi, 2),
        averages |-> calculate_averages(cs),
        best |-> find_best_performers(cs),
        worst |-> find_worst_performers(cs)])

---------------------------------------------------------------------------
(* BagBuddyScenarioComparison *)

SCENARIOS ==
  [conservative |->
     [name |-> "Conservative (Baseline)",
      description |-> "No feature boost - pure industry benchmarks",
      scan_rate |-> Rat(2, 1), conversion_rate |-> Rat(20, 1), color |-> "red circle"],
   moderate |->
     [name |-> "Moderate (Platform Boost)",
      description |-> "Realistic impact from BagBuddy features",
      scan_rate |-> Rat(25, 10), conversion_rate |-> Rat(25, 1), color |-> "yellow circle"],
   optimistic |->
     [name |-> "Optimistic (Best Case)",
      description |-> "Maximum realistic feature impact",
      scan_rate |-> Rat(3, 1), conversion_rate |-> Rat(30, 1), color |-> "green circle"]]

\* BrandROICalculator of roi_calculator.py, which is not among the sources:
\* the chain of the formula workbook (export_excel_formulas.py), 5000 bags a
\* quarter at 0.15 a slot, the counts truncated, the ROI rounded to two
\* decimals and 0 where the divisor is 0
BrandROICalculator_campaign_cost(data) ==
  RMul(RMul(Rat(15, 100), Rat(5000, 1)), data["num_quarters"])
BrandROICalculator_scans(data) ==
  PyInt(Pct(RMul(RMul(Rat(5000, 1), data["num_quarters"]), data["scan_rate"])))
BrandROICalculator_conversions(data, scans) ==
  PyInt(Pct(RMul(scans, data["conversion_rate"])))
BrandROICalculator_roi(total_sales, campaign_cost) ==
  IF IsZero(campaign_cost) THEN Zero
  ELSE PyRound(Times100(RDiv(RSub(total_sales, campaign_cost), campaign_cost)), 2)
BrandROICalculator_report(data, campaign_cost, conversions, total_sales) ==
  [scan_rate_percent |-> data["scan_rate"],
   conversion_rate_percent |-> data["conversion_rate"],
   avg_revenue_per_conversion |-> data["avg_revenue_per_conversion"],
   campaign_cost |-> campaign_cost,
   conversions_redemptions |-> conversions,
   total_sales_generated |-> total_sales,
   roi_percent |-> BrandROICalculator_roi(total_sales, campaign_cost),
   cost_per_conversion |-> IF IsZero(conversions) THEN Zero
                           ELSE PyRound(RDiv(campaign_cost, conversions), 2)]
BrandROICalculator_sold(data, campaign_cost, conversions) ==
  BrandROICalculator_report(data, campaign_cost, conversions,
                            RMul(conversions, data["avg_revenue_per_conversion"]))

\* BrandROICalculator(campaign_data).get_full_report()
BrandROICalculator_get_full_report(data) ==
  BrandROICalculator_sold(data, BrandROICalculator_campaign_cost(data),
    BrandROICalculator_conversions(data, BrandROICalculator_scans(data)))

\* lines 104-106: the copy of the base data with the scenario's rates stored
ScenarioCampaignData(base_campaign_data, scenario_name) ==
  Store(Store(base_campaign_data, "scan_rate", SCENARIOS[scenario_name].scan_rate),
        "conversion_rate", SCENARIOS[scenario_name].conversion_rate)

\* a faulty variant: the rates are stored into self.base_campaign_data itself
StoresIntoBase(base_campaign_data, scenario_name) ==
  ScenarioCampaignData(base_campaign_data, scenario_name)

\* line 104: campaign_data is a copy, so the stores of lines 105-106 leave
\* self.base_campaign_data as it was
BaseAfterStores(base_campaign_data, scenario_name) == base_campaign_data

\* lines 108-117: the report of the calculator with the scenario's name,
\* description and colour added
ScenarioOutcome(scenario, campaign_data_) ==
  Return(Store(Store(Store(BrandROICalculator_get_full_report(campaign_data_),
                           "scenario_name", scenario.name),
                     "scenario_description", scenario.description),
               "scenario_color", scenario.color))

\* lines 100-117, for a name of SCENARIOS: the report, the base data
\* afterwards and the data the calculator was constructed with
ScenarioReport(base_campaign_data, scenario_name) ==
  [outcome |-> ScenarioOutcome(SCENARIOS[scenario_name],
                               ScenarioCampaignData(base_campaign_data, scenario_name)),
   base_campaign_data |-> BaseAfterStores(base_campaign_data, scenario_name),
   constructed |-> <<ScenarioCampaignData(base_campaign_data, scenario_name)>>]

\* a faulty variant: a name that is none of SCENARIOS is run as 'conservative'
run_scenario_defaulting(base_campaign_data, scenario_name) ==
  ScenarioReport(base_campaign_data,
                 IF scenario_name \in DOMAIN SCENARIOS THEN scenario_name
                 ELSE "conservative")

\* lines 97-98: raise ValueError before anything else is done
run_scenario(base_campaign_data, scenario_name) ==
  IF scenario_name \notin DOMAIN SCENARIOS
  THEN [outcome |-> Raise, base_campaign_data |-> base_campaign_data, constructed |-> <<>>]
  ELSE ScenarioReport(base_campaign_data, scenario_name)

\* line 128: results[scenario_name] = self.run_scenario(scenario_name); a
\* raise ends the loop
AfterScenario(sofar, scenario_name, run) ==
  [outcome |-> IF run.outcome.raised THEN Raise
               ELSE Return(Store(sofar.outcome.value, scenario_name, run.outcome.value)),
   base_campaign_data |-> run.base_campaign_data,
   constructed |-> sofar.constructed \o run.constructed]

\* lines 127-128: the loop over the names still to be run
RECURSIVE RunInOrder(_, _)
RunInOrder(sofar, scenario_names) ==
  IF scenario_names = <<>> \/ sofar.outcome.raised THEN sofar
  ELSE RunInOrder(AfterScenario(sofar, Head(scenario_names),
                                run_scenario(sofar.base_campaign_data,
                                             Head(scenario_names))),
                  Tail(scenario_names))

\* lines 126-130: results = {} and the three scenarios in the order of the
\* list
compare_all_scenarios(base_campaign_data) ==
  RunInOrder([outcome |-> Return(<<>>), base_campaign_data |-> base_campaign_data,
              constructed |-> <<>>],
             <<"conservative", "moderate", "optimistic">>)


---------------------------------------------------------------------------
(* A calculator object and the calls made on it *)

Calculators ==
  {"FlyerCampaignROICalculator", "DigitalAdsROICalculator", "InvestorROICalculator",
   "CommerceRewardCalculator", "CampaignComparison", "BagBuddyScenarioComparison"}

NoDict == [k \in {} |-> Zero]
Without(d, key) == [k \in DOMAIN d \ {key} |-> d[k]]

\* dictionaries a caller may pass: the sample of the module's __main__ with
\* one key left out, zero or negative
Variants(sample, values) ==
  {sample} \cup {Without(sample, k) : k \in DOMAIN sample}
  \cup {[sample EXCEPT ![k] = v] : k \in DOMAIN sample, v \in values}

FlyerSample ==
  [num_flyers |-> Rat(5000, 1), print_cost_per_flyer |-> Rat(12, 100),
   distribution_cost_per_flyer |-> Rat(10, 100), response_rate_percent |-> Rat(8, 10),
   conversion_rate_percent |-> Rat(10, 1), avg_revenue_per_conversion |-> Rat(25, 1)]
FlyerInputs == Variants(FlyerSample, {Zero, Rat(-1, 100)})

DigitalSample ==
  [ad_budget |-> Rat(1000, 1), cpm |-> Rat(10, 1), ctr_percent |-> Rat(1, 1),
   conversion_rate_percent |-> Rat(25, 10), avg_revenue_per_conversion |-> Rat(25, 1)]
DigitalInputs == Variants(DigitalSample, {Zero, Rat(-1, 100)})

InvestorSample ==
  [initial_investment |-> Rat(100000, 1), current_value |-> Rat(150000, 1),
   investment_period_years |-> Rat(2, 1)]
InvestorInputs ==
  Variants(InvestorSample, {Zero})
  \cup {[InvestorSample EXCEPT !.investment_period_years = Rat(1, 1)],
        [InvestorSample EXCEPT !.current_value = Rat(400000, 1)],
        [InvestorSample EXCEPT !.current_value = Rat(-150000, 1)]}
CashFlows == {<<>>, <<Rat(-100, 1), Rat(110, 1)>>}

\* assumptions with up to two entries set to zero, with no growth from one
\* quarter to the next, or none passed at all
ZeroKeys == {"bag_retail_price", "cpv_brand_pays", "avg_monthly_ad_views",
             "initial_brands_enrolled", "bags_sold_per_month", "cash_credit_per_view",
             "industry_avg_ctr", "meta_cpm"}
GrowthKeys == {"bag_sales_growth_quarterly", "brand_growth_rate_quarterly"}
CommerceInputs ==
  {NoDict}
  \cup {[k \in DOMAIN get_default_assumptions |->
           IF k \in {k1, k2} THEN Zero ELSE get_default_assumptions[k]] :
          k1 \in ZeroKeys, k2 \in ZeroKeys}
  \cup {[get_default_assumptions EXCEPT ![k] = Zero] : k \in GrowthKeys}
\* an assumption and a name that is no assumption
SensitivityVariables == {"avg_monthly_ad_views", "monthly_ad_views"}
SensitivityValues == {<<Rat(6, 1), Rat(20, 1)>>, <<Zero>>, <<>>}

Campaign(name, investment, revenue, customers, impressions, engagements, clicks, conversions) ==
  [campaign_name |-> name, campaign_id |-> name,
   total_investment |-> Rat(investment, 1), total_revenue |-> Rat(revenue, 1),
   new_customers |-> Rat(customers, 1), impressions |-> Rat(impressions, 1),
   engagements |-> Rat(engagements, 1), clicks |-> Rat(clicks, 1),
   conversions |-> Rat(conversions, 1)]
CampaignRows ==
  {Campaign("Spring", 5000, 7500, 50, 100000, 4000, 2000, 100),
   Campaign("Summer", 8000, 6000, 40, 90000, 2700, 900, 45),
   Campaign("Unlaunched", 0, 0, 0, 0, 0, 0, 0)}

\* files load_from_csv may be pointed at: no rows, one row, two rows
CsvFiles ==
  {<<>>, <<Campaign("Unlaunched", 0, 0, 0, 0, 0, 0, 0)>>,
   <<Campaign("Spring", 5000, 7500, 50, 100000, 4000, 2000, 100),
     Campaign("Summer", 8000, 6000, 40, 90000, 2700, 900, 45)>>}

\* the base campaign of the module's __main__, the same with rates of the
\* caller's own, and one with nothing earned per conversion
ScenarioSample ==
  [num_quarters |-> Rat(1, 1), avg_revenue_per_conversion |-> Rat(25, 1),
   impressions_per_bag |-> Rat(5, 1), trees_planted |-> Zero]
ScenarioInputs ==
  {ScenarioSample,
   Store(Store(ScenarioSample, "scan_rate", Rat(9, 1)), "conversion_rate", Rat(50, 1)),
   [ScenarioSample EXCEPT !.avg_revenue_per_conversion = Zero]}
\* the three names of SCENARIOS and two names that are none of them
ScenarioNames == {"conservative", "moderate", "optimistic", "aggressive", "Moderate"}

Inputs == <<campaign_data, investment_data, assumptions, campaigns>>
NoCalls == [k \in {} |-> Raise]
Key(m, args) == <<m, args>>

\* the call is made and what it hands back is noted
Note(key, outcome) ==
  /\ ncalls < MaxCalls
  /\ ncalls' = ncalls + 1
  /\ called' = key
  /\ results' = (key :> outcome) @@ results
  /\ first' = IF key \in DOMAIN first THEN first ELSE (key :> outcome) @@ first

\* a dictionary of numbers is returned unless computing an entry raised
ReturnDict(rec) == IF \E k \in DOMAIN rec : IsErr(rec[k]) THEN Raise ELSE Return(rec)

FlyerCall(m) ==
  /\ calculator = "FlyerCampaignROICalculator"
  /\ Note(Key(m, <<>>), ReturnNumber(FlyerNumber(m, campaign_data)))
  /\ UNCHANGED <<wbvars, instvars, expvars, roi_calculators,
                 calculator, campaign_data, investment_data, assumptions,
                 campaigns, given>>

FlyerGetFullReport ==
  /\ calculator = "FlyerCampaignROICalculator"
  /\ Note(Key("get_full_report", <<>>), ReturnDict(Flyer_get_full_report(campaign_data)))
  /\ UNCHANGED <<wbvars, instvars, expvars, roi_calculators,
                 calculator, campaign_data, investment_data, assumptions,
                 campaigns, given>>

DigitalCall(m) ==
  /\ calculator = "DigitalAdsROICalculator"
  /\ Note(Key(m, <<>>), ReturnNumber(DigitalNumber(m, campaign_data)))
  /\ UNCHANGED <<wbvars, instvars, expvars, roi_calculators,
                 calculator, campaign_data, investment_data, assumptions,
                 campaigns, given>>

DigitalGetFullReport ==
  /\ calculator = "DigitalAdsROICalculator"
  /\ Note(Key("get_full_report", <<>>), ReturnDict(Digital_get_full_report(campaign_data)))
  /\ UNCHANGED <<wbvars, instvars, expvars, roi_calculators,
                 calculator, campaign_data, investment_data, assumptions,
                 campaigns, given>>

InvestorCall(m) ==
  /\ calculator = "InvestorROICalculator"
  /\ Note(Key(m, <<>>), ReturnNumber(InvestorNumber(m, investment_data)))
  /\ UNCHANGED <<wbvars, instvars, expvars, roi_calculators,
                 calculator, campaign_data, investment_data, assumptions,
                 campaigns, given>>

InvestorIrr(cash_flows) ==
  /\ calculator = "InvestorROICalculator"
  /\ Note(Key("calculate_irr", cash_flows), ReturnNumber(Investor_calculate_irr(cash_flows)))
  /\ UNCHANGED <<wbvars, instvars, expvars, roi_calculators,
                 calculator, campaign_data, investment_data, assumptions,
                 campaigns, given>>

InvestorGetFullReport ==
  /\ calculator = "InvestorROICalculator"
  /\ Note(Key("get_full_report", <<>>), ReturnDict(Investor_get_full_report(investment_data)))
  /\ UNCHANGED <<wbvars, instvars, expvars, roi_calculators,
                 calculator, campaign_data, investment_data, assumptions,
                 campaigns, given>>

CommerceDictMethods ==
  {"calculate_revenue_per_user", "calculate_revenue_per_bag", "calculate_tier_economics",
   "calculate_store_value", "calculate_brand_roi", "calculate_monthly_summary"}

CommerceDict(m, a) ==
  CASE m = "calculate_revenue_per_user" -> calculate_revenue_per_user(a)
    [] m = "calculate_revenue_per_bag" -> calculate_revenue_per_bag(a)
    [] m = "calculate_tier_economics" -> calculate_tier_economics(a)
    [] m = "calculate_store_value" -> calculate_store_value(a)
    [] m = "calculate_brand_roi" -> calculate_brand_roi(a)
    [] m = "calculate_monthly_summary" -> calculate_monthly_summary(a)

CommerceCall(m) ==
  /\ calculator = "CommerceRewardCalculator"
  /\ Note(Key(m, <<>>), Return(CommerceDict(m, assumptions)))
  /\ UNCHANGED <<wbvars, instvars, expvars, roi_calculators,
                 calculator, campaign_data, investment_data, assumptions,
                 campaigns, given>>

CalculateInvestorMetrics ==
  /\ calculator = "CommerceRewardCalculator"
  /\ Note(Key("calculate_investor_metrics", <<>>), calculate_investor_metrics(assumptions))
  /\ UNCHANGED <<wbvars, instvars, expvars, roi_calculators,
                 calculator, campaign_data, investment_data, assumptions,
                 campaigns, given>>

CalculateBusinessGrowthMetrics ==
  /\ calculator = "CommerceRewardCalculator"
  /\ Note(Key("calculate_business_growth_metrics", <<>>),
          calculate_business_growth_metrics(assumptions))
  /\ UNCHANGED <<wbvars, instvars, expvars, roi_calculators,
                 calculator, campaign_data, investment_data, assumptions,
                 campaigns, given>>

\* the attributes the class statement of CommerceRewardCalculator defines
CommerceRewardCalculatorMethods ==
  {"__init__", "get_default_assumptions", "calculate_revenue_per_user",
   "calculate_revenue_per_bag", "calculate_tier_economics", "calculate_store_value",
   "calculate_brand_roi", "calculate_monthly_summary", "generate_scenario",
   "calculate_investor_metrics", "calculate_business_growth_metrics", "print_summary",
   "calculate_sensitivity_analysis", "_print_remaining_summary"}

\* c.name: the attribute is looked up before anything is called, and a name
\* the class does not define raises AttributeError
HasMethod(name) == name \in CommerceRewardCalculatorMethods

\* test_brand_growth.py line 4: bg = c.calculate_brand_growth_metrics()
CalculateBrandGrowthMetrics ==
  /\ calculator = "CommerceRewardCalculator"
  /\ ~HasMethod("calculate_brand_growth_metrics")
  /\ Note(Key("calculate_brand_growth_metrics", <<>>), Raise)
  /\ UNCHANGED <<wbvars, instvars, expvars, roi_calculators,
                 calculator, campaign_data, investment_data, assumptions,
                 campaigns, given>>

GenerateScenario(scenario_type) ==
  /\ calculator = "CommerceRewardCalculator"
  /\ Note(Key("generate_scenario", <<scenario_type>>),
          Return(generate_scenario(scenario_type)))
  /\ UNCHANGED <<wbvars, instvars, expvars, roi_calculators,
                 calculator, campaign_data, investment_data, assumptions,
                 campaigns, given>>

CalculateSensitivityAnalysis(variable, values) ==
  /\ calculator = "CommerceRewardCalculator"
  /\ Note(Key("calculate_sensitivity_analysis", <<variable, values>>),
          calculate_sensitivity_analysis(assumptions, variable, values))
  /\ assumptions' = AssumptionsAfterSensitivity(assumptions, variable, values)
  /\ UNCHANGED <<wbvars, instvars, expvars, roi_calculators,
                 calculator, campaign_data, investment_data, campaigns, given>>

\* self.base_campaign_data is held in campaign_data
RunScenario(scenario_name) ==
  /\ calculator = "BagBuddyScenarioComparison"
  /\ \E run \in {run_scenario(campaign_data, scenario_name)} :
       /\ Note(Key("run_scenario", <<scenario_name>>), run.outcome)
       /\ campaign_data' = run.base_campaign_data
       /\ roi_calculators' = roi_calculators \o run.constructed
  /\ UNCHANGED <<wbvars, instvars, expvars, calculator, investment_data, assumptions, campaigns,
                 given>>

CompareAllScenarios ==
  /\ calculator = "BagBuddyScenarioComparison"
  /\ \E run \in {compare_all_scenarios(campaign_data)} :
       /\ Note(Key("compare_all_scenarios", <<>>), run.outcome)
       /\ campaign_data' = run.base_campaign_data
       /\ roi_calculators' = roi_calculators \o run.constructed
  /\ UNCHANGED <<wbvars, instvars, expvars, calculator, investment_data, assumptions, campaigns,
                 given>>

\* the comparison's inputs change: what was returned before is no longer
\* comparable
AddCampaign(campaign_data_arg) ==
  /\ calculator = "CampaignComparison"
  /\ Len(campaigns) < MaxCampaigns
  /\ campaigns' = Append(campaigns, campaign_data_arg)
  /\ given' = <<campaign_data, investment_data, assumptions, campaigns'>>
  /\ results' = NoCalls /\ first' = NoCalls /\ ncalls' = 0
  /\ called' = Key("add_campaign", <<campaign_data_arg.campaign_name>>)
  /\ UNCHANGED <<wbvars, instvars, expvars, roi_calculators,
                 calculator, campaign_data, investment_data, assumptions>>

\* the list is emptied and one campaign is appended per row of the file
LoadFromCsv(rows) ==
  /\ calculator = "CampaignComparison"
  /\ campaigns' = rows
  /\ given' = <<campaign_data, investment_data, assumptions, campaigns'>>
  /\ results' = NoCalls /\ first' = NoCalls /\ ncalls' = 0
  /\ called' = Key("load_from_csv", <<Len(rows)>>)
  /\ UNCHANGED <<wbvars, instvars, expvars, roi_calculators,
                 calculator, campaign_data, investment_data, assumptions>>

CalculateMetrics(campaign) ==
  /\ calculator = "CampaignComparison"
  /\ Note(Key("calculate_metrics", <<campaign.campaign_name>>),
          ReturnDict(calculate_metrics(campaign)))
  /\ UNCHANGED <<wbvars, instvars, expvars, roi_calculators,
                 calculator, campaign_data, investment_data, assumptions,
                 campaigns, given>>

ComparisonMethods ==
  {"compare_all", "find_best_performers", "find_worst_performers", "calculate_averages"}

ComparisonResult(m, cs) ==
  CASE m = "compare_all" -> compare_all(cs)
    [] m = "find_best_performers" -> IF Len(cs) = 0 THEN NoDict ELSE find_best_performers(cs)
    [] m = "find_worst_performers" ->
         IF Len(cs) = 0 THEN NoDict ELSE find_worst_performers(cs)
    [] m = "calculate_averages" -> IF Len(cs) = 0 THEN NoDict ELSE calculate_averages(cs)

ComparisonCall(m) ==
  /\ calculator = "CampaignComparison"
  /\ Note(Key(m, <<>>), Return(ComparisonResult(m, campaigns)))
  /\ UNCHANGED <<wbvars, instvars, expvars, roi_calculators,
                 calculator, campaign_data, investment_data, assumptions,
                 campaigns, given>>

GenerateComparisonReport ==
  /\ calculator = "CampaignComparison"
  /\ Note(Key("generate_comparison_report", <<>>), generate_comparison_report(campaigns))
  /\ UNCHANGED <<wbvars, instvars, expvars, roi_calculators,
                 calculator, campaign_data, investment_data, assumptions,
                 campaigns, given>>

\* no workbook is being built while a calculator is exercised
NoWorkbook ==
  /\ builder = "" /\ pc = 0 /\ ws = "" /\ row = 0
  /\ names = [n \in {} |-> [c |-> "", r |-> 0]]
  /\ cells = [a \in {} |-> Label]
  /\ saved = FALSE /\ edits = 0 /\ edited = <<>>

Init ==
  /\ NoWorkbook
  /\ NoExport
  /\ NoInstances
  /\ calculator \in Calculators
  /\ campaign_data \in
       CASE calculator = "FlyerCampaignROICalculator" -> FlyerInputs
         [] calculator = "DigitalAdsROICalculator" -> DigitalInputs
         [] calculator = "BagBuddyScenarioComparison" -> ScenarioInputs
         [] OTHER -> {NoDict}
  /\ investment_data \in
       IF calculator = "InvestorROICalculator" THEN InvestorInputs ELSE {NoDict}
  /\ assumptions \in
       IF calculator = "CommerceRewardCalculator"
       THEN {CommerceRewardCalculator(arg) : arg \in CommerceInputs}
       ELSE {NoDict}
  /\ campaigns = <<>>
  /\ given = <<campaign_data, investment_data, assumptions, campaigns>>
  /\ results = NoCalls
  /\ first = NoCalls
  /\ ncalls = 0
  /\ called = <<>>
  /\ roi_calculators = <<>>

Next ==
  \/ \E m \in FlyerNumberMethods : FlyerCall(m)
  \/ FlyerGetFullReport
  \/ \E m \in DigitalNumberMethods : DigitalCall(m)
  \/ DigitalGetFullReport
  \/ \E m \in InvestorNumberMethods : InvestorCall(m)
  \/ \E cash_flows \in CashFlows : InvestorIrr(cash_flows)
  \/ InvestorGetFullReport
  \/ \E m \in CommerceDictMethods : CommerceCall(m)
  \/ CalculateInvestorMetrics
  \/ CalculateBusinessGrowthMetrics
  \/ CalculateBrandGrowthMetrics
  \/ \E t \in {"best", "base", "worst"} : GenerateScenario(t)
  \/ \E variable \in SensitivityVariables : \E values \in SensitivityValues :
       CalculateSensitivityAnalysis(variable, values)
  \/ \E c \in CampaignRows : AddCampaign(c)
  \/ \E rows \in CsvFiles : LoadFromCsv(rows)
  \/ \E c \in CampaignRows : CalculateMetrics(c)
  \/ \E m \in ComparisonMethods : ComparisonCall(m)
  \/ GenerateComparisonReport
  \/ \E scenario_name \in ScenarioNames : RunScenario(scenario_name)
  \/ CompareAllScenarios

Spec == Init /\ [][Next]_vars


---------------------------------------------------------------------------
(* Zero denominators in the Python calculators *)

\* the calculate_* methods the class defines
IsCalculate(key) ==
  key[1] \in CommerceRewardCalculatorMethods
           \ {"__init__", "get_default_assumptions", "generate_scenario", "print_summary",
              "_print_remaining_summary"}
NonNegative(d) == \A k \in DOMAIN d : ~RLess(d[k], Zero)

\* what line 373 divides by
ContributionMarginDivisor(a) ==
  RAdd(a.bag_retail_price, calculate_revenue_per_user(a).brand_spend_per_user)

\* C2: with non-negative assumptions every calculate_* method of
\* CommerceRewardCalculator returns without raising, and the contribution
\* margin % is 0 when the price plus the brand spend per user is 0
C2_CommerceCalculationsNeverRaise ==
  (calculator = "CommerceRewardCalculator" /\ NonNegative(assumptions)) =>
    \A key \in DOMAIN results :
      IsCalculate(key) =>
        /\ ~results[key].raised
        /\ (key[1] = "calculate_investor_metrics"
            /\ ContributionMarginDivisor(assumptions) = Zero)
           => results[key].value.contribution_margin_pct = Zero

\* the divisor of each ratio metric: method name -> the number divided by
FlyerDivisors(d) ==
  [calculate_roi |-> {Flyer_calculate_campaign_cost(d)},
   calculate_roas |-> {Flyer_calculate_campaign_cost(d)},
   calculate_cost_per_impression |-> {Flyer_calculate_total_impressions(d)},
   calculate_cost_per_response |-> {Flyer_calculate_responses(d)},
   calculate_cost_per_conversion |-> {Flyer_calculate_conversions(d)}]
DigitalDivisors(d) ==
  [calculate_roi |-> {Digital_calculate_campaign_cost(d)},
   calculate_roas |-> {Digital_calculate_campaign_cost(d)},
   calculate_total_impressions |-> {Digital_calculate_cpm(d)},
   calculate_cost_per_click |-> {Digital_calculate_total_clicks(d)},
   calculate_cost_per_conversion |-> {Digital_calculate_conversions(d)}]
InvestorDivisors(d) ==
  [calculate_roi |-> {Get(d, "initial_investment", Zero)},
   calculate_multiple_on_invested_capital |-> {Get(d, "initial_investment", Zero)},
   calculate_annualized_return |-> {Get(d, "initial_investment", Zero),
                                    Get(d, "investment_period_years", Rat(1, 1))},
   calculate_profit_margin |-> {Get(d, "current_value", Zero)}]
Divisors ==
  CASE calculator = "FlyerCampaignROICalculator" -> FlyerDivisors(campaign_data)
    [] calculator = "DigitalAdsROICalculator" -> DigitalDivisors(campaign_data)
    [] calculator = "InvestorROICalculator" -> InvestorDivisors(investment_data)
    [] OTHER -> NoDict

\* the entry of get_full_report that carries a ratio method's result
ReportEntry(m) ==
  CASE m = "calculate_roi" ->
         IF calculator = "InvestorROICalculator" THEN "roi_percentage" ELSE "roi_percent"
    [] m = "calculate_roas" -> "roas"
    [] m = "calculate_cost_per_impression" -> "cost_per_impression"
    [] m = "calculate_cost_per_response" -> "cost_per_response"
    [] m = "calculate_cost_per_click" -> "cost_per_click"
    [] m = "calculate_cost_per_conversion" -> "cost_per_conversion"
    [] m = "calculate_total_impressions" -> "total_impressions"
    [] m = "calculate_multiple_on_invested_capital" -> "moic"
    [] m = "calculate_annualized_return" -> "annualized_return"
    [] m = "calculate_profit_margin" -> "profit_margin"

ZeroDivisor(m) == Zero \in Divisors[m]

\* C3: in the flyer, digital ads and investor calculators a ratio metric
\* whose denominator is 0 returns exactly 0 and raises nothing, called on
\* its own or as an entry of the full report
C3_RatioIsZeroOnZeroDenominator ==
  \A m \in DOMAIN Divisors :
    ZeroDivisor(m) =>
      /\ Key(m, <<>>) \in DOMAIN results =>
           /\ ~results[Key(m, <<>>)].raised
           /\ results[Key(m, <<>>)].value = Zero
      /\ Key("get_full_report", <<>>) \in DOMAIN results =>
           /\ ~results[Key("get_full_report", <<>>)].raised
           /\ results[Key("get_full_report", <<>>)].value[ReportEntry(m)] = Zero

\* impressions were asked of a digital ads calculator whose CPM is 0, and so
\* was the full report
C3_Witness ==
  /\ calculator = "DigitalAdsROICalculator"
  /\ Digital_calculate_cpm(campaign_data) = Zero
  /\ Digital_calculate_campaign_cost(campaign_data) # Zero
  /\ Key("calculate_total_impressions", <<>>) \in DOMAIN results
  /\ Key("get_full_report", <<>>) \in DOMAIN results

CampaignNamed(name) == CHOOSE c \in CampaignRows : c.campaign_name = name

\* the divisor of each ratio of calculate_metrics
MetricDivisors(c) ==
  [roi |-> c.total_investment, cac |-> c.new_customers, ctr |-> c.impressions,
   cvr |-> c.clicks, cpc |-> c.clicks, cpa |-> c.conversions,
   roas |-> c.total_investment]

\* C4: for a non-empty list of campaigns calculate_metrics and
\* generate_comparison_report do not raise, and every ratio they report,
\* the summary's Overall ROI included, is 0 when its denominator is 0
C4_ComparisonRatiosAreZeroOnZeroDenominator ==
  calculator = "CampaignComparison" =>
    \A key \in DOMAIN results :
      /\ key[1] = "calculate_metrics" =>
           /\ ~results[key].raised
           /\ \A k \in DOMAIN MetricDivisors(CampaignNamed(key[2][1])) :
                MetricDivisors(CampaignNamed(key[2][1]))[k] = Zero
                  => results[key].value[k] = Zero
      /\ (key[1] = "generate_comparison_report" /\ Len(campaigns) > 0) =>
           /\ ~results[key].raised
           /\ SumOf(campaigns, "total_investment", Len(campaigns)) = Zero
                => results[key].value.overall_roi = Zero

---------------------------------------------------------------------------
(* Repeated calls *)

\* C6: while a calculator's inputs are unchanged every call returns what the
\* first call of that method returned, and no call leaves the inputs other
\* than they were given
C6_CallsAreIdempotent ==
  /\ Inputs = given
  /\ \A key \in DOMAIN results : results[key] = first[key]

\* a sensitivity analysis has run on a commerce calculator and a call has
\* been repeated after it
C6_Witness ==
  /\ calculator = "CommerceRewardCalculator"
  /\ \E k \in DOMAIN results : k[1] = "calculate_sensitivity_analysis"
  /\ ncalls > Cardinality(DOMAIN results)



---------------------------------------------------------------------------
(* The dependency graph of the formula cells *)

\* the cells the given cells read in one step
DirectRefs(store, as) ==
  UNION {Refs(store[a].e) : a \in {b \in as : b \in DOMAIN store /\ store[b].k = "formula"}}

\* every cell reachable from the frontier along references; a cell is
\* expanded once, so the walk ends on a graph with cycles as well
RECURSIVE Reach(_, _, _)
Reach(store, frontier, seen) ==
  LET new == DirectRefs(store, frontier) \ seen
  IN IF new = {} THEN seen ELSE Reach(store, new, seen \cup new)

DependsOn(store, a) == Reach(store, {a}, {})

\* C11: at every point of a build and in the saved workbook, no formula
\* cell depends, directly or transitively, on itself.
C11_FormulaGraphIsAcyclic ==
  \A a \in FormulaCells(cells) : a \notin DependsOn(cells, a)

\* the ROI cell of the conservative column has been written: it reads the
\* revenue cell, which reads the conversions cell, which reads the scans cell
C11_Witness ==
  /\ builder = Formulas
  /\ "revenue_row" \in DOMAIN names
  /\ Cell(RoiSheet, "B", "revenue_row", 2) \in FormulaCells(cells)
  /\ Cell(RoiSheet, "B", "scans_row", 0)
       \in DependsOn(cells, Cell(RoiSheet, "B", "revenue_row", 2))
  /\ Cell(RoiSheet, "B", "revenue_row", 0)
       \in DependsOn(cells, Cell(RoiSheet, "B", "revenue_row", 2))



---------------------------------------------------------------------------
(* Several CommerceRewardCalculator objects and the dictionaries they hold *)

MaxInstances == 2

\* self.assumptions of the i-th object
AssumptionsOf(ds, is, i) == ds[is[i].dict]

ChangedKeys == {"avg_monthly_ad_views"}
ChangedValues == {Zero, Rat(6, 1)}

\* CommerceRewardCalculator(): no argument, so get_default_assumptions()
\* builds a new dictionary
Construct ==
  /\ Len(instances) < MaxInstances
  /\ dicts' = Append(dicts, get_default_assumptions)
  /\ instances' = Append(instances, [dict |-> Len(dicts) + 1, origin |-> "default"])
  /\ acted' = [op |-> "__init__", i |-> Len(instances) + 1]
  /\ UNCHANGED <<wbvars, calcvars, expvars>>

\* CommerceRewardCalculator(d) with a non-empty dictionary d that is already
\* in memory: `assumptions or ...` keeps d itself
ConstructWith(d) ==
  /\ Len(instances) < MaxInstances
  /\ d \in DOMAIN dicts
  /\ instances' = Append(instances, [dict |-> d, origin |-> "given"])
  /\ acted' = [op |-> "__init__", i |-> Len(instances) + 1]
  /\ UNCHANGED <<wbvars, calcvars, expvars, dicts>>

\* CommerceRewardCalculator({}): an empty dictionary is false, so the
\* defaults are built
ConstructWithEmpty ==
  /\ Len(instances) < MaxInstances
  /\ dicts' = Append(dicts, get_default_assumptions)
  /\ instances' = Append(instances, [dict |-> Len(dicts) + 1, origin |-> "given"])
  /\ acted' = [op |-> "__init__", i |-> Len(instances) + 1]
  /\ UNCHANGED <<wbvars, calcvars, expvars>>

\* generate_scenario on the i-th object: a new dictionary from
\* get_default_assumptions() and a new object holding it
GenerateScenarioOn(i, scenario_type) ==
  /\ Len(instances) < MaxInstances
  /\ i \in DOMAIN instances
  /\ dicts' = Append(dicts, generate_scenario(scenario_type))
  /\ instances' = Append(instances, [dict |-> Len(dicts) + 1,
                                     origin |-> "generate_scenario"])
  /\ acted' = [op |-> "generate_scenario", i |-> i]
  /\ UNCHANGED <<wbvars, calcvars, expvars>>

\* calc.assumptions[key] = value
SetAssumption(i, key, value) ==
  /\ i \in DOMAIN instances
  /\ dicts' = [dicts EXCEPT ![instances[i].dict][key] = value]
  /\ acted' = [op |-> "set", i |-> i]
  /\ UNCHANGED <<wbvars, calcvars, expvars, instances>>

SensitivityOn(i, variable, values) ==
  /\ i \in DOMAIN instances
  /\ dicts' = [dicts EXCEPT ![instances[i].dict] =
                 AssumptionsAfterSensitivity(dicts[instances[i].dict], variable, values)]
  /\ acted' = [op |-> "calculate_sensitivity_analysis", i |-> i]
  /\ UNCHANGED <<wbvars, calcvars, expvars, instances>>

InitInstances ==
  /\ NoWorkbook
  /\ NoExport
  /\ calculator = "" /\ campaign_data = <<>> /\ investment_data = <<>>
  /\ assumptions = <<>> /\ campaigns = <<>> /\ given = <<>>
  /\ results = <<>> /\ first = <<>> /\ ncalls = 0
  /\ called = <<>> /\ roi_calculators = <<>>
  /\ dicts = <<>>
  /\ instances = <<>>
  /\ acted = [op |-> "", i |-> 0]

NextInstances ==
  \/ Construct
  \/ \E d \in DOMAIN dicts : ConstructWith(d)
  \/ ConstructWithEmpty
  \/ \E i \in DOMAIN instances : \E t \in {"best", "base", "worst"} :
       GenerateScenarioOn(i, t)
  \/ \E i \in DOMAIN instances : \E key \in ChangedKeys : \E value \in ChangedValues :
       SetAssumption(i, key, value)
  \/ \E i \in DOMAIN instances : \E values \in {<<Rat(6, 1), Rat(20, 1)>>, <<>>} :
       SensitivityOn(i, "avg_monthly_ad_views", values)

SpecInstances == InitInstances /\ [][NextInstances]_vars

Owned == {"default", "generate_scenario"}

C12_Step ==
  /\ \A j \in DOMAIN instances :
       (/\ acted'.op \in {"set", "calculate_sensitivity_analysis"}
        /\ acted'.i # j
        /\ instances[j].origin \in Owned)
       => /\ AssumptionsOf(dicts', instances', j) = AssumptionsOf(dicts, instances, j)
          /\ calculate_monthly_summary(AssumptionsOf(dicts', instances', j))
               = calculate_monthly_summary(AssumptionsOf(dicts, instances, j))
  /\ acted'.op = "generate_scenario"
       => AssumptionsOf(dicts', instances', acted'.i)
            = AssumptionsOf(dicts, instances, acted'.i)

\* C12: a change of one object's assumptions, made directly or by
\* calculate_sensitivity_analysis, leaves the assumptions and the results of
\* every other object that came from the default constructor or from
\* generate_scenario as they were, and generate_scenario leaves the
\* assumptions of the object it is called on as they were.
C12_InstancesAreIndependent == [][C12_Step]_vars



---------------------------------------------------------------------------
(* Growth projections *)

\* the entries of the result that test_growth.py prints
GrowthKeysRead ==
  {"initial_bags", "bags_q1", "bags_q2", "bags_q3", "bags_q4",
   "bag_growth_rate_quarterly", "bag_revenue_lift", "bag_revenue_lift_pct",
   "initial_brands", "brands_q1", "brands_q2", "brands_q3", "brands_q4",
   "brand_growth_rate_quarterly", "base_fill_rate", "year_end_fill_rate",
   "ad_revenue_lift", "ad_revenue_lift_pct", "base_annual_revenue",
   "total_annual_revenue", "total_revenue_lift", "total_revenue_lift_pct"}

Compounded(previous, rate_percent) ==
  RMul(previous, RAdd(Rat(1, 1), RDiv(rate_percent, Rat(100, 1))))

GrowthKey == Key("calculate_business_growth_metrics", <<>>)

\* C13: the growth metrics compound quarter on quarter: bags_q1 is the
\* initial number of bags and each later quarter is the one before times
\* (1 + bag_sales_growth_quarterly / 100), the brands likewise at
\* brand_growth_rate_quarterly, and every entry test_growth.py reads is there.
C13_QuarterlyCompounding ==
  (calculator = "CommerceRewardCalculator" /\ GrowthKey \in DOMAIN results
   /\ ~results[GrowthKey].raised) =>
    LET g == results[GrowthKey].value
        bag_rate == assumptions.bag_sales_growth_quarterly
        brand_rate == assumptions.brand_growth_rate_quarterly
    IN /\ GrowthKeysRead \subseteq DOMAIN g
       /\ g.bags_q1 = assumptions.bags_sold_per_month
       /\ g.bags_q2 = Compounded(g.bags_q1, bag_rate)
       /\ g.bags_q3 = Compounded(g.bags_q2, bag_rate)
       /\ g.bags_q4 = Compounded(g.bags_q3, bag_rate)
       /\ g.brands_q1 = assumptions.initial_brands_enrolled
       /\ g.brands_q2 = Compounded(g.brands_q1, brand_rate)
       /\ g.brands_q3 = Compounded(g.brands_q2, brand_rate)
       /\ g.brands_q4 = Compounded(g.brands_q3, brand_rate)

\* the default assumptions: 10000 bags growing 15 % a quarter, 10 brands
\* growing 25 % a quarter
C13_Witness ==
  /\ calculator = "CommerceRewardCalculator"
  /\ GrowthKey \in DOMAIN results
  /\ ~results[GrowthKey].raised
  /\ results[GrowthKey].value.bags_q1 = Rat(10000, 1)
  /\ results[GrowthKey].value.bags_q4 = Rat(1520875, 100)
  /\ results[GrowthKey].value.brands_q4 = Rat(1953125, 100000)

\* the entries test_brand_growth.py prints
BrandGrowthKeysRead ==
  {"brands_q1", "brands_q2", "brands_q3", "brands_q4", "avg_brands_year1",
   "base_fill_rate", "year_end_fill_rate", "avg_fill_rate", "revenue_lift_from_growth",
   "revenue_lift_pct", "base_annual_ad_revenue", "total_annual_ad_revenue"}

BrandGrowthKey == Key("calculate_brand_growth_metrics", <<>>)

\* C14: on a calculator built by the default constructor
\* calculate_brand_growth_metrics() returns a dictionary that holds every
\* entry test_brand_growth.py reads.
C14_BrandGrowthMetricsOffered ==
  (/\ calculator = "CommerceRewardCalculator"
   /\ assumptions = get_default_assumptions
   /\ BrandGrowthKey \in DOMAIN results) =>
    /\ ~results[BrandGrowthKey].raised
    /\ BrandGrowthKeysRead \subseteq DOMAIN results[BrandGrowthKey].value

SensitivityKey(variable, values) ==
  Key("calculate_sensitivity_analysis", <<variable, values>>)

\* a step in which calculate_sensitivity_analysis(variable, values) is called
SensitivityCalled(variable, values) ==
  /\ calculator = "CommerceRewardCalculator"
  /\ ncalls' = ncalls + 1
  /\ SensitivityKey(variable, values) \in DOMAIN results'
  /\ results' = (SensitivityKey(variable, values) :>
                   results'[SensitivityKey(variable, values)]) @@ results

C17_Step ==
  \A variable \in SensitivityVariables : \A values \in SensitivityValues :
    SensitivityCalled(variable, values) =>
      /\ assumptions' = assumptions
      /\ variable \notin DOMAIN assumptions =>
           results'[SensitivityKey(variable, values)].raised

\* C17: a call of calculate_sensitivity_analysis(variable, values), the empty
\* list of values included, leaves the assumptions exactly as they were
\* before it, and for a name that is no assumption the call raises with no
\* assumption added or changed.
C17_SensitivityLeavesAssumptions == [][C17_Step]_vars

\* the analysis has been run over the empty list, and has been refused for a
\* name that is no assumption, on assumptions that differ from the defaults
C17_Witness ==
  /\ calculator = "CommerceRewardCalculator"
  /\ assumptions # get_default_assumptions
  /\ SensitivityKey("avg_monthly_ad_views", <<>>) \in DOMAIN results
  /\ ~results[SensitivityKey("avg_monthly_ad_views", <<>>)].raised
  /\ SensitivityKey("monthly_ad_views", <<Zero>>) \in DOMAIN results
  /\ results[SensitivityKey("monthly_ad_views", <<Zero>>)].raised

\* the assumptions with the named one set to value and every other one kept
With(a, variable, value) == [k \in DOMAIN a |-> IF k = variable THEN value ELSE a[k]]

\* C18: calculate_sensitivity_analysis(variable, values) returns one entry
\* per element of values, in the order of values; entry i carries
\* value = values[i] and the total revenue, total margin, margin percentage
\* and user rewards that calculate_monthly_summary and
\* calculate_revenue_per_user give when the named assumption is values[i] and
\* every other assumption has its original value.
C18_SensitivityRowsPerValue ==
  \A variable \in DOMAIN assumptions : \A values \in SensitivityValues :
    (/\ calculator = "CommerceRewardCalculator"
     /\ SensitivityKey(variable, values) \in DOMAIN results) =>
      LET outcome == results[SensitivityKey(variable, values)]
      IN /\ ~outcome.raised
         /\ Len(outcome.value) = Len(values)
         /\ \A i \in 1..Len(values) :
              LET summary == calculate_monthly_summary(With(assumptions, variable, values[i]))
                  per_user == calculate_revenue_per_user(With(assumptions, variable, values[i]))
                  entry == outcome.value[i]
              IN /\ entry.value = values[i]
                 /\ entry.total_revenue = summary.total_revenue
                 /\ entry.total_margin = summary.total_margin
                 /\ entry.margin_pct = summary.margin_percentage
                 /\ entry.user_rewards = per_user.total_user_rewards

\* the analysis over 6 and 20 monthly ad views has returned two entries
\* whose revenues differ
C18_Witness ==
  /\ calculator = "CommerceRewardCalculator"
  /\ SensitivityKey("avg_monthly_ad_views", <<Rat(6, 1), Rat(20, 1)>>) \in DOMAIN results
  /\ LET rows == results[SensitivityKey("avg_monthly_ad_views",
                                        <<Rat(6, 1), Rat(20, 1)>>)].value
     IN /\ Len(rows) = 2
        /\ rows[1].value = Rat(6, 1) /\ rows[2].value = Rat(20, 1)
        /\ rows[1].total_revenue # rows[2].total_revenue
        /\ rows[1].user_rewards # rows[2].user_rewards

\* a step in which run_scenario(scenario_name) is called
RunScenarioCalled(scenario_name) ==
  /\ calculator = "BagBuddyScenarioComparison"
  /\ ncalls' = ncalls + 1
  /\ called' = Key("run_scenario", <<scenario_name>>)

\* a step in which compare_all_scenarios() is called
CompareAllScenariosCalled ==
  /\ calculator = "BagBuddyScenarioComparison"
  /\ ncalls' = ncalls + 1
  /\ called' = Key("compare_all_scenarios", <<>>)

C19_Step ==
  \A scenario_name \in ScenarioNames \ {"conservative", "moderate", "optimistic"} :
    RunScenarioCalled(scenario_name) =>
      /\ results'[Key("run_scenario", <<scenario_name>>)].raised
      /\ roi_calculators' = roi_calculators
      /\ campaign_data' = campaign_data

\* C19: run_scenario raises for every scenario name other than
\* 'conservative', 'moderate' and 'optimistic', and it does so before any
\* calculation: no BrandROICalculator is constructed and the base campaign
\* data is untouched.
C19_UnknownScenarioRaises == [][C19_Step]_vars

\* 'Moderate' has been refused after 'moderate' was run
C19_Witness ==
  /\ calculator = "BagBuddyScenarioComparison"
  /\ called = Key("run_scenario", <<"Moderate">>)
  /\ results[Key("run_scenario", <<"Moderate">>)].raised
  /\ Key("run_scenario", <<"moderate">>) \in DOMAIN results
  /\ ~results[Key("run_scenario", <<"moderate">>)].raised
  /\ Len(roi_calculators) = 1

\* the data given at construction with the two rates of the scenario in
\* place of whatever rates it held
ScenarioDataOf(base_campaign_data, scenario_name) ==
  [k \in DOMAIN base_campaign_data \cup {"scan_rate", "conversion_rate"} |->
     CASE k = "scan_rate" -> SCENARIOS[scenario_name].scan_rate
       [] k = "conversion_rate" -> SCENARIOS[scenario_name].conversion_rate
       [] OTHER -> base_campaign_data[k]]

C20_Step ==
  calculator = "BagBuddyScenarioComparison" =>
    /\ campaign_data' = campaign_data
    /\ campaign_data = given[1]
    /\ \A scenario_name \in {"conservative", "moderate", "optimistic"} :
         RunScenarioCalled(scenario_name) =>
           roi_calculators' =
             Append(roi_calculators, ScenarioDataOf(given[1], scenario_name))
    /\ CompareAllScenariosCalled =>
         roi_calculators' =
           roi_calculators \o <<ScenarioDataOf(given[1], "conservative"),
                                ScenarioDataOf(given[1], "moderate"),
                                ScenarioDataOf(given[1], "optimistic")>>

\* C20: no run_scenario or compare_all_scenarios call changes
\* base_campaign_data, and the campaign data a scenario is calculated with
\* is the data given at construction with that scenario's scan rate and
\* conversion rate, whichever scenarios were run before it.
C20_BaseCampaignDataUnchanged == [][C20_Step]_vars

\* 'conservative' has been run after all three scenarios were compared, on
\* base data that came with rates of its own, and was calculated with the
\* same data both times
C20_Witness ==
  /\ calculator = "BagBuddyScenarioComparison"
  /\ "scan_rate" \in DOMAIN campaign_data
  /\ called = Key("run_scenario", <<"conservative">>)
  /\ Key("compare_all_scenarios", <<>>) \in DOMAIN results
  /\ Len(roi_calculators) = 4
  /\ roi_calculators[4] = roi_calculators[1]
  /\ roi_calculators[4] # roi_calculators[3]


---------------------------------------------------------------------------
(* The scenarios of generate_scenario, the exporters and the rankings *)

\* C24: for every calculator generate_scenario has returned, 'base', 'best'
\* or 'worst', calculate_tier_economics reports a total_percentage of
\* exactly 100: the shares of bronze, silver, gold and platinum users add up
\* to the whole.
C24_TierSharesSumTo100 ==
  \A scenario_type \in {"base", "best", "worst"} :
    (/\ calculator = "CommerceRewardCalculator"
     /\ Key("generate_scenario", <<scenario_type>>) \in DOMAIN results) =>
      LET returned == results[Key("generate_scenario", <<scenario_type>>)].value
      IN calculate_tier_economics(returned).total_percentage = Rat(100, 1)

---------------------------------------------------------------------------
(* Python values as str(), the csv module and f-strings show them *)

\* a value of a dictionary: its type, the number it is or shows (Err when it
\* shows none) and, for a string, its characters
IntValue(n) == [type |-> "int", num |-> Rat(n, 1), text |-> ""]
FloatValue(n, d) == [type |-> "float", num |-> Rat(n, d), text |-> ""]
StrValue(s, q) == [type |-> "str", num |-> q, text |-> s]

Pad2(k) == IF k < 10 THEN "0" \o ToString(k) ELSE ToString(k)
Pad3(k) == IF k < 100 THEN "0" \o Pad2(k) ELSE ToString(k)
Sign(q) == IF q[1] < 0 THEN "-" ELSE ""

\* the digits of n >= 0 in groups of three: the ',' of a format
RECURSIVE Grouped(_)
Grouped(n) ==
  IF n < 1000 THEN ToString(n) ELSE Grouped(n \div 1000) \o "," \o Pad3(n % 1000)

\* the hundredths of |q| after rounding to two decimals
Hundredths(q) == Abs(PyRound(q, 2)[1]) * (100 \div PyRound(q, 2)[2])

\* f"{q:.2f}", and f"{q:,.2f}" when grouped
Fixed2(q, grouped) ==
  Sign(q)
  \o (IF grouped THEN Grouped(Hundredths(q) \div 100)
      ELSE ToString(Hundredths(q) \div 100))
  \o "." \o Pad2(Hundredths(q) % 100)

\* repr of a float of at most two decimals: the shortest digits, one decimal
\* at least
FloatRepr(q) ==
  Sign(q) \o ToString(Hundredths(q) \div 100) \o "."
  \o (IF Hundredths(q) % 10 = 0 THEN ToString((Hundredths(q) % 100) \div 10)
      ELSE Pad2(Hundredths(q) % 100))

\* str(value), which is also what csv.writer writes and f"{value}" shows
PyStr(value) ==
  CASE value.type = "int" -> ToString(value.num[1])
    [] value.type = "float" -> FloatRepr(value.num)
    [] OTHER -> value.text

\* isinstance(value, (int, float))
IsNumber(value) == value.type \in {"int", "float"}

---------------------------------------------------------------------------
(* ROIDataExporter of src/brand/export.py *)

MaxExports == 2

PercentTerms == {"rate", "roi", "margin", "ctr", "cvr"}
CurrencyTerms == {"cost", "revenue", "investment", "profit", "cac", "cpc", "cpa"}

\* the keys of the sample dictionaries in sorted() order, and the terms of
\* lines 178 and 181 that occur in key.lower()
SortedKeys ==
  <<"Total_Cost", "campaign_name", "conversion_rate", "impressions",
    "roi_percent", "total_revenue">>
TermsIn(key) ==
  CASE key = "Total_Cost" -> {"cost"}
    [] key = "conversion_rate" -> {"rate"}
    [] key = "roi_percent" -> {"roi"}
    [] key = "total_revenue" -> {"revenue"}
    [] OTHER -> {}

\* lines 177-187: the value as it is put into formatted_item
formatted_value(key, value) ==
  IF TermsIn(key) \cap PercentTerms # {}
  THEN IF IsNumber(value) THEN StrValue(PyStr(value) \o "%", value.num) ELSE value
  ELSE IF TermsIn(key) \cap CurrencyTerms # {}
  THEN IF IsNumber(value)
       THEN StrValue("$" \o Fixed2(value.num, TRUE), PyRound(value.num, 2))
       ELSE value
  ELSE IF value.type = "int" /\ RLess(Rat(999, 1), value.num)
  THEN StrValue(Grouped(value.num[1]), value.num)
  ELSE value

\* lines 175-188: a new dictionary with the keys of item
formatted_item(item) == [key \in DOMAIN item |-> formatted_value(key, item[key])]

\* lines 44-47: the keys of all the dictionaries, sorted
Fieldnames(data) ==
  SelectSeq(SortedKeys, LAMBDA key : \E i \in DOMAIN data : key \in DOMAIN data[i])

\* csv.DictWriter.writerow: str() of each value, '' for a key the
\* dictionary lacks
CsvRow(fieldnames, item) ==
  [j \in DOMAIN fieldnames |->
     IF fieldnames[j] \in DOMAIN item THEN PyStr(item[fieldnames[j]]) ELSE ""]

\* lines 49-52: open(output_file, 'w') replaces the file, then the header
\* and one row per dictionary
CsvWritten(fs, data, output_file) ==
  Store(fs, output_file,
        <<Fieldnames(data)>> \o [i \in DOMAIN data |-> CsvRow(Fieldnames(data), data[i])])

\* the dictionaries the list refers to
Deref(mem, data) == [i \in DOMAIN data |-> mem[data[i]]]

\* a faulty variant: the file is opened before the list is looked at
export_to_csv_opening_first(fs, mem, data, filename) ==
  IF Len(data) = 0
  THEN [outcome |-> Raise, files |-> Store(fs, filename \o ".csv", <<>>), memory |-> mem]
  ELSE [outcome |-> Return(filename \o ".csv"),
        files |-> CsvWritten(fs, Deref(mem, data), filename \o ".csv"),
        memory |-> mem]

\* lines 38-54: ValueError for an empty list, else the file and its path
export_to_csv(fs, mem, data, filename) ==
  IF Len(data) = 0
  THEN [outcome |-> Raise, files |-> fs, memory |-> mem]
  ELSE [outcome |-> Return(filename \o ".csv"),
        files |-> CsvWritten(fs, Deref(mem, data), filename \o ".csv"),
        memory |-> mem]

\* lines 173-188: formatted_data, a list of new dictionaries placed after
\* the ones in memory
FormattedData(mem, data) == [i \in DOMAIN data |-> Len(mem) + i]
MemoryWithFormatted(mem, data) ==
  mem \o [i \in DOMAIN data |-> formatted_item(mem[data[i]])]

\* line 190 and the return: what export_to_csv did, and of the memory the
\* part the caller can still reach
AfterFormattedExport(mem, call) ==
  [outcome |-> call.outcome, files |-> call.files,
   memory |-> SubSeq(call.memory, 1, Len(mem))]

\* lines 167-190: ValueError for an empty list, else export_to_csv of the
\* formatted copies
create_excel_friendly_csv(fs, mem, data, filename) ==
  IF Len(data) = 0
  THEN [outcome |-> Raise, files |-> fs, memory |-> mem]
  ELSE AfterFormattedExport(mem,
         export_to_csv(fs, MemoryWithFormatted(mem, data), FormattedData(mem, data),
                       filename))

\* the dictionaries a caller holds
SummerSale ==
  [campaign_name |-> StrValue("Summer Sale 2025", Err), roi_percent |-> FloatValue(150, 1),
   total_revenue |-> IntValue(25000), impressions |-> IntValue(250000)]
Flyers ==
  [campaign_name |-> StrValue("Flyers", Err), conversion_rate |-> FloatValue(25, 10),
   Total_Cost |-> FloatValue(110025, 100), impressions |-> IntValue(999)]
Unknown ==
  [roi_percent |-> StrValue("n/a", Err), total_revenue |-> FloatValue(-4, 1000)]
MemorySamples ==
  {<<>>, <<SummerSale>>, <<Unknown>>, <<SummerSale, Flyers>>, <<Flyers, Unknown>>}
\* the lists a caller can make of them: none, one, two (also the same twice)
DataLists(mem) ==
  {<<>>} \cup {<<d>> : d \in DOMAIN mem} \cup {<<d, e>> : d \in DOMAIN mem, e \in DOMAIN mem}
Filenames == {"campaigns", "campaigns_for_excel"}

\* the call is made and what it did is noted
Exported(op, args, call) ==
  /\ nexports < MaxExports
  /\ nexports' = nexports + 1
  /\ files' = call.files
  /\ memory' = call.memory
  /\ exported' = [op |-> op, args |-> args, outcome |-> call.outcome]
  /\ UNCHANGED <<wbvars, calcvars, instvars>>

\* exporter.export_to_csv(data, filename)
ExportToCsv(data, filename) ==
  Exported("export_to_csv", <<data, filename>>,
           export_to_csv(files, memory, data, filename))

\* exporter.create_excel_friendly_csv(data, filename)
CreateExcelFriendlyCsv(data, filename) ==
  Exported("create_excel_friendly_csv", <<data, filename>>,
           create_excel_friendly_csv(files, memory, data, filename))

---------------------------------------------------------------------------
(* export_scenarios_to_csv of src/brand/export_comparison_csv.py and        *)
(* export_to_excel of src/brand/export_excel.py: of what they write, the    *)
(* rows that show a verdict or a ranking                                    *)

\* bagbuddy_scenario_comparison.py, _roi_verdict
roi_verdict(roi) ==
  IF RLess(roi, Rat(-50, 1)) THEN "SEVERE LOSS"
  ELSE IF RLess(roi, Zero) THEN "UNPROFITABLE"
  ELSE IF RLess(roi, Rat(10, 1)) THEN "MARGINALLY PROFITABLE"
  ELSE IF RLess(roi, Rat(25, 1)) THEN "MODEST PROFIT"
  ELSE IF RLess(roi, Rat(50, 1)) THEN "GOOD PROFIT"
  ELSE "EXCELLENT PROFIT"

\* the campaigns both exporters compare the scenarios with
digital_campaign ==
  [ad_budget |-> Rat(1000, 1), cpm |-> Rat(10, 1), ctr_percent |-> Rat(1, 1),
   conversion_rate_percent |-> Rat(25, 10), avg_revenue_per_conversion |-> Rat(25, 1)]
flyer_campaign ==
  [num_flyers |-> Rat(5000, 1), print_cost_per_flyer |-> Rat(12, 100),
   distribution_cost_per_flyer |-> Rat(10, 100), response_rate_percent |-> Rat(8, 10),
   conversion_rate_percent |-> Rat(10, 1), avg_revenue_per_conversion |-> Rat(25, 1)]

\* a cell of plain text, and a cell whose text shows the number q
Text(s) == StrValue(s, Err)
Shown(s, q) == StrValue(s, q)

\* f"{roi}%" in the csv file, f"{roi:.2f}%" in the workbook
RoiShown(roi, excel) ==
  IF excel THEN Shown(Fixed2(roi, FALSE) \o "%", PyRound(roi, 2))
  ELSE Shown(FloatRepr(roi) \o "%", roi)

\* f"${x:.2f}" in the csv file, f"${x:,.2f}" in the workbook
Dollars(x, grouped) == Shown("$" \o Fixed2(x, grouped), PyRound(x, 2))

\* one row of the cross-channel table; the verdict is a literal of the code
ChannelRow(channel, campaign_cost, conversions, total_sales, roi, cost_per_conversion, verdict, excel) ==
  <<Text(channel), Dollars(campaign_cost, excel),
    Shown(ToString(conversions[1]), conversions), Dollars(total_sales, excel),
    RoiShown(roi, excel), Dollars(cost_per_conversion, FALSE), Text(verdict)>>

BagBuddyRow(channel, report, verdict, excel) ==
  ChannelRow(channel, report.campaign_cost, report.conversions_redemptions,
             report.total_sales_generated, report.roi_percent,
             report.cost_per_conversion, verdict, excel)
OtherRow(channel, report, verdict, excel) ==
  ChannelRow(channel, report.campaign_cost, report.total_conversions,
             report.total_sales, report.roi_percent, report.cost_per_conversion,
             verdict, excel)

\* csv lines 358-363, workbook lines 354-370
CrossChannelRows(results_, digital_report, flyer_report, excel) ==
  <<<<Text("Channel"), Text("Budget"), Text("Conversions"), Text("Revenue"),
      Text("ROI"), Text("Cost per Conversion"), Text("Verdict")>>,
    BagBuddyRow("BagBuddy - Conservative", results_["conservative"], "UNPROFITABLE", excel),
    BagBuddyRow("BagBuddy - Moderate", results_["moderate"], "MARGINALLY PROFITABLE", excel),
    BagBuddyRow("BagBuddy - Optimistic", results_["optimistic"], "EXCELLENT PROFIT", excel),
    OtherRow("Digital Ads (Facebook/Instagram)", digital_report, "UNPROFITABLE", excel),
    OtherRow("Print Flyers", flyer_report, "SEVERE LOSS", excel)>>

\* csv lines 366-373, workbook lines 374-396: the ranks are literals of the
\* code
RankingRows(results_, digital_report, flyer_report, excel) ==
  <<<<Text("RANKING BY ROI (Best to Worst)")>>,
    <<Text("Rank"), Text("Channel"), Text("ROI")>>,
    <<Text("1"), Text("BagBuddy - Optimistic"),
      RoiShown(results_["optimistic"].roi_percent, excel)>>,
    <<Text("2"), Text("BagBuddy - Moderate"),
      RoiShown(results_["moderate"].roi_percent, excel)>>,
    <<Text("3"), Text("BagBuddy - Conservative"),
      RoiShown(results_["conservative"].roi_percent, excel)>>,
    <<Text("4"), Text("Digital Ads"), RoiShown(digital_report.roi_percent, excel)>>,
    <<Text("5"), Text("Print Flyers"), RoiShown(flyer_report.roi_percent, excel)>>>>

\* csv lines 178-185
ScenarioInsights(cons_roi, mod_roi, opt_roi) ==
  <<<<Text("KEY INSIGHTS")>>,
    <<Text("Scenario"), Text("Verdict"), Text("Key Finding")>>,
    <<Text("Conservative"),
      Text(IF RLess(cons_roi, Zero) THEN "UNPROFITABLE" ELSE "PROFITABLE"),
      Shown("Standard industry performance - " \o FloatRepr(cons_roi) \o "% ROI",
            cons_roi)>>,
    <<Text("Moderate"),
      Text(IF ~RLess(mod_roi, Zero) /\ RLess(mod_roi, Rat(10, 1))
           THEN "MARGINALLY PROFITABLE" ELSE "PROFITABLE"),
      Shown("Platform features improve ROI by "
            \o Fixed2(RSub(mod_roi, cons_roi), FALSE) \o "pp",
            PyRound(RSub(mod_roi, cons_roi), 2))>>,
    <<Text("Optimistic"),
      Text(IF RLess(Rat(25, 1), opt_roi) THEN "EXCELLENT PROFIT" ELSE "PROFITABLE"),
      Shown("Best case shows " \o FloatRepr(opt_roi) \o "% ROI potential", opt_roi)>>>>

\* csv lines 287-290 and 340-343: the verdict and the ROI of a channel
ChannelInsights(heading, roi, benchmarks) ==
  <<<<Text(heading)>>,
    <<Text("Insight"), Text("Description")>>,
    <<Text("Verdict"),
      Text(IF RLess(roi, Zero) THEN "UNPROFITABLE" ELSE "PROFITABLE")>>,
    <<Text("ROI Analysis"),
      Shown(FloatRepr(roi) \o "% ROI with realistic " \o benchmarks \o " benchmarks", roi)>>>>

CsvRows(results_, digital_report, flyer_report) ==
  ScenarioInsights(results_["conservative"].roi_percent, results_["moderate"].roi_percent,
                   results_["optimistic"].roi_percent)
  \o ChannelInsights("KEY INSIGHTS - DIGITAL ADS", digital_report.roi_percent, "2024-2025")
  \o ChannelInsights("KEY INSIGHTS - FLYERS", flyer_report.roi_percent, "DMA 2023")
  \o CrossChannelRows(results_, digital_report, flyer_report, FALSE)
  \o RankingRows(results_, digital_report, flyer_report, FALSE)

\* the sheet 'Cross-Channel Comparison'
ExcelRows(results_, digital_report, flyer_report) ==
  CrossChannelRows(results_, digital_report, flyer_report, TRUE)
  \o RankingRows(results_, digital_report, flyer_report, TRUE)

\* export_scenarios_to_csv(base_campaign_data, output_file)
export_scenarios_to_csv(fs, mem, base_campaign_data, output_file) ==
  [outcome |-> Return(output_file),
   files |-> Store(fs, output_file,
                   CsvRows(compare_all_scenarios(base_campaign_data).outcome.value,
                           Digital_get_full_report(digital_campaign),
                           Flyer_get_full_report(flyer_campaign))),
   memory |-> mem]

\* export_to_excel(base_campaign_data, output_file)
export_to_excel(fs, mem, base_campaign_data, output_file) ==
  [outcome |-> Return(output_file),
   files |-> Store(fs, output_file,
                   ExcelRows(compare_all_scenarios(base_campaign_data).outcome.value,
                             Digital_get_full_report(digital_campaign),
                             Flyer_get_full_report(flyer_campaign))),
   memory |-> mem]

\* the base campaigns of Spec and one that sells at 40 a conversion
ExportBases ==
  ScenarioInputs \cup {[ScenarioSample EXCEPT !.avg_revenue_per_conversion = Rat(40, 1)]}

ExportScenariosToCsv(base_campaign_data) ==
  Exported("export_scenarios_to_csv",
           <<base_campaign_data, "bagbuddy_all_channels_comparison.csv">>,
           export_scenarios_to_csv(files, memory, base_campaign_data,
                                   "bagbuddy_all_channels_comparison.csv"))

ExportToExcel(base_campaign_data) ==
  Exported("export_to_excel",
           <<base_campaign_data, "bagbuddy_all_channels_comparison.xlsx">>,
           export_to_excel(files, memory, base_campaign_data,
                           "bagbuddy_all_channels_comparison.xlsx"))

InitExport ==
  /\ NoWorkbook
  /\ NoInstances
  /\ calculator = "" /\ campaign_data = <<>> /\ investment_data = <<>>
  /\ assumptions = <<>> /\ campaigns = <<>> /\ given = <<>>
  /\ results = <<>> /\ first = <<>> /\ ncalls = 0
  /\ called = <<>> /\ roi_calculators = <<>>
  /\ memory \in MemorySamples
  /\ files = <<>>
  /\ exported = [op |-> "", args |-> <<>>, outcome |-> Return("")]
  /\ nexports = 0

NextExport ==
  \/ \E data \in DataLists(memory) : \E filename \in Filenames :
       ExportToCsv(data, filename)
  \/ \E data \in DataLists(memory) : \E filename \in Filenames :
       CreateExcelFriendlyCsv(data, filename)
  \/ \E base_campaign_data \in ExportBases : ExportScenariosToCsv(base_campaign_data)
  \/ \E base_campaign_data \in ExportBases : ExportToExcel(base_campaign_data)

SpecExport == InitExport /\ [][NextExport]_vars

---------------------------------------------------------------------------
(* What the exporters promise *)

C21_Step ==
  nexports' = nexports + 1 =>
    /\ (/\ exported'.op \in {"export_to_csv", "create_excel_friendly_csv"}
        /\ Len(exported'.args[1]) = 0)
       => (exported'.outcome.raised /\ files' = files)
    /\ exported'.op = "create_excel_friendly_csv" => memory' = memory

\* C21: export_to_csv and create_excel_friendly_csv raise ValueError for an
\* empty list and leave the output directory as it was, no file created or
\* written; create_excel_friendly_csv leaves every dictionary of the list it
\* is given as it was.
C21_EmptyListRaisesBeforeTheFile == [][C21_Step]_vars

\* an empty list was refused after an earlier call had written its file from
\* two dictionaries
C21_Witness ==
  /\ exported.op = "create_excel_friendly_csv"
  /\ Len(exported.args[1]) = 0
  /\ exported.outcome.raised
  /\ "campaigns_for_excel.csv" \in DOMAIN files
  /\ Len(files["campaigns_for_excel.csv"]) = 3
  /\ Len(memory) = 2

\* the files of export_scenarios_to_csv and export_to_excel
ComparisonFiles ==
  DOMAIN files \cap {"bagbuddy_all_channels_comparison.csv",
                     "bagbuddy_all_channels_comparison.xlsx"}

IndexOf(file, heading) == CHOOSE h \in DOMAIN file : file[h][1].text = heading
HasRow(file, heading) == \E h \in DOMAIN file : file[h][1].text = heading

\* the ROI shown in the five rows under the heading and the column titles
RankedRois(file) ==
  [i \in 1..5 |-> file[IndexOf(file, "RANKING BY ROI (Best to Worst)") + 1 + i][3].num]

\* C22: in the csv file and in the workbook, for any base campaign data, the
\* five rows under 'RANKING BY ROI (Best to Worst)' are in non-increasing
\* order of the ROI each row shows.
C22_RankingIsBestToWorst ==
  \A f \in ComparisonFiles :
    \A i \in 1..4 : ~RLess(RankedRois(files[f])[i], RankedRois(files[f])[i + 1])

\* the ROI of a channel in the cross-channel table
RoiOf(file, channel) == file[IndexOf(file, channel)][5].num

\* every verdict written, with the ROI of its scenario or channel: the rows
\* of the cross-channel table, and in the csv file the key insights
CrossChannelVerdicts(file) ==
  {<<file[i][7].text, file[i][5].num>> :
     i \in {j \in DOMAIN file : Len(file[j]) = 7 /\ file[j][1].text # "Channel"}}
InsightVerdicts(file) ==
  IF ~HasRow(file, "KEY INSIGHTS") THEN {}
  ELSE {<<file[IndexOf(file, name)][2].text, RoiOf(file, "BagBuddy - " \o name)>> :
          name \in {"Conservative", "Moderate", "Optimistic"}}
       \cup {<<file[IndexOf(file, "KEY INSIGHTS - DIGITAL ADS") + 2][2].text,
               RoiOf(file, "Digital Ads (Facebook/Instagram)")>>,
             <<file[IndexOf(file, "KEY INSIGHTS - FLYERS") + 2][2].text,
               RoiOf(file, "Print Flyers")>>}

ProfitLabels ==
  {"PROFITABLE", "MARGINALLY PROFITABLE", "MODEST PROFIT", "GOOD PROFIT",
   "EXCELLENT PROFIT"}

\* C23: every verdict the exports write for a scenario or a channel is the
\* one _roi_verdict gives for the ROI of that row, and no row of negative
\* ROI is labelled as profitable.
C23_VerdictsFollowRoi ==
  \A f \in ComparisonFiles :
    \A written \in CrossChannelVerdicts(files[f]) \cup InsightVerdicts(files[f]) :
      /\ written[1] = roi_verdict(written[2])
      /\ RLess(written[2], Zero) => written[1] \notin ProfitLabels

---------------------------------------------------------------------------
(* The Investor Metrics sheet and calculate_investor_metrics *)

\* the assumptions the saved workbook shows on its Assumptions sheet, as a
\* calculator would be given them
SheetAssumptions ==
  [get_default_assumptions EXCEPT
     !.bag_retail_price = ValueOf(Named("Assumptions", "bag_price_cell")),
     !.cpv_brand_pays = ValueOf(Named("Assumptions", "cpv_cell")),
     !.cash_credit_per_view = ValueOf(Named("Assumptions", "cash_credit_cell")),
     !.reward_points_per_view = ValueOf(Named("Assumptions", "reward_points_cell")),
     !.kshipra_margin_per_view = ValueOf(Named("Assumptions", "margin_per_view_cell")),
     !.avg_ads_to_recover_bag = ValueOf(Named("Assumptions", "ads_to_recover_cell")),
     !.avg_monthly_ad_views = ValueOf(Named("Assumptions", "monthly_views_cell"))]

InvestorSheetAsAssumed ==
  /\ saved /\ builder = Commerce
  /\ ValueOf(Named("Investor Metrics", "cac_cell")) = Rat(2, 1)
  /\ ValueOf(Named("Investor Metrics", "lifetime_cell")) = Rat(12, 1)

\* what the sheet and the method report for the same assumptions
LtvAgrees(metrics) ==
  ~metrics.raised =>
    /\ ValueOf(Cell("Investor Metrics", "B", "ltv_row", 0)) = metrics.value.ltv
    /\ ValueOf(Cell("Investor Metrics", "B", "ltv_row", 3)) = metrics.value.ltv_cac_ratio

\* C25: with a CAC of 2.00 and a lifetime of 12 months on the sheet, the
\* Total LTV and the LTV:CAC ratio of the Investor Metrics sheet are the ltv
\* and the ltv_cac_ratio calculate_investor_metrics returns for the
\* assumptions the workbook shows.
C25_SheetLtvIsCalculatorLtv ==
  InvestorSheetAsAssumed => LtvAgrees(calculate_investor_metrics(SheetAssumptions))
=============================================================================
